---- MODULE Spec2Model ----
(***************************************************************************)
(* A model of bkp: a bulk-file overlay on a content-addressed object       *)
(* database.  Bulk trees (marker "0" + children "0_<component>"), the      *)
(* structural operations append and remove, the blob store's two-phase     *)
(* store, the tree planter and the traverser.                              *)
(*                                                                         *)
(* Object ids are content hashes, so an object is identified with its      *)
(* content: two ids are equal exactly when kind and content are equal.     *)
(* Strings the code takes apart (entry names, shadow text, hex digests)    *)
(* are sequences of one-character strings.                                 *)
(***************************************************************************)
EXTENDS Integers, Sequences, FiniteSets, TLC

VARIABLES
    big_tree,   \* SpecTree: the tree id the next structural operation is given
    last,       \* SpecTree: the last append/remove call: arguments and outcome
    nops,       \* SpecTree: number of structural operations run so far
    files,      \* blob store: the regular files under blobs/ and partial/, by path
    dirs,       \* blob store: the directories under blobs/ and partial/
    store,      \* blob store: per caller, the store call it is in or has returned from
    nstores,    \* blob store: number of store calls begun
    snapshot,   \* planter: the entry sequence of the snapshot to plant
    planted,    \* planter: the outcome of plant_snapshot, once it ran
    root,       \* traverser: the object id the walks start from
    walk,       \* traverser: the last walk: its callbacks and its outcome
    subject,    \* store_snapshot: the files of the subject directory, by relative path
    stored,     \* store_snapshot: the outcome of the last store_snapshot
    tree_a,     \* shallow_diff: the tree on side A
    tree_b,     \* shallow_diff: the tree on side B
    diffs,      \* shallow_diff: the outcome and the differences the callback was given, in order
    codec_arg,  \* codecs: the entry name or the shadow a conversion is given
    codec_out,  \* codecs: what the conversions made of it
    inodes,     \* mount: the inode table, by inode number
    family_tree,\* mount: the inode cached for a (directory inode, entry index) key
    next_inode, \* mount: the next inode number to hand out
    file_handles,\* mount: the shared file handle of each open inode
    reply,      \* mount: the last callback and what it replied
    origin,     \* mount: for each inode handed out, the slot and entry mode it was made for
    opens,      \* mount: successful opens so far, by inode
    releases,   \* mount: releases so far, by inode
    listing,    \* mount: the readdir series under way: directory, resume offset, entries so far
    commits,    \* the commits of the current branch, HEAD last
    cli         \* the last command run and how it ended

treeVars == <<big_tree, last, nops>>

storeVars == <<files, dirs, store, nstores>>

plantVars == <<snapshot, planted>>

walkVars == <<root, walk>>

snapVars == <<subject, stored>>

diffVars == <<tree_a, tree_b, diffs>>

codecVars == <<codec_arg, codec_out>>

mountVars == <<inodes, family_tree, next_inode, file_handles, reply, origin, opens, releases, listing>>

cliVars == <<commits, cli>>

vars == <<treeVars, storeVars, plantVars, walkVars, snapVars, diffVars, codecVars, mountVars, cliVars>>

----------------------------------------------------------------------------
(* Bounds *)

\* structural operations (append / remove) in one run
MaxOps == 3

\* bytes of a content digest (the program's 32, scaled down)
DigestBytes == 2

\* store calls begun in one run
MaxStores == 3

\* bits of a u64 (the program's 64, scaled down)
U64Bits == 13

\* characters of an entry name given to the decoders
MaxNameLen == 4

----------------------------------------------------------------------------
(* git2::FileMode *)

FileModeTree == 16384            \* 0o040000
FileModeBlob == 33188            \* 0o100644
FileModeBlobExecutable == 33261  \* 0o100755
FileModeLink == 40960            \* 0o120000

----------------------------------------------------------------------------
(* Characters and text *)

Str_sha256 == <<"s", "h", "a", "2", "5", "6">>
Str_size == <<"s", "i", "z", "e">>
SP == " "
LF == "\n"

HexChars == <<"0", "1", "2", "3", "4", "5", "6", "7", "8", "9", "a", "b", "c", "d", "e", "f">>

\* hex::encode of one byte: two lower-case hex digits
HexByte(b) == <<HexChars[(b \div 16) + 1], HexChars[(b % 16) + 1]>>

\* hex::encode(self.digest)
RECURSIVE to_hex(_)
to_hex(digest) ==
    IF digest = <<>> THEN <<>> ELSE HexByte(Head(digest)) \o to_hex(Tail(digest))

\* value of one hex digit as hex::decode reads it (either case), -1 if none
HexVal(c) ==
    IF \E i \in 1..16 : HexChars[i] = c
    THEN (CHOOSE i \in 1..16 : HexChars[i] = c) - 1
    ELSE CASE c = "A" -> 10 [] c = "B" -> 11 [] c = "C" -> 12
           [] c = "D" -> 13 [] c = "E" -> 14 [] c = "F" -> 15
           [] OTHER -> -1

NoDigest == <<-1>>

\* hex::decode_to_slice(s, &mut [0; SHA256_DIGEST_SIZE]): exactly two hex
\* digits per byte, nothing more, nothing less
from_hex(s) ==
    IF Len(s) # 2 * DigestBytes \/ \E i \in 1..Len(s) : HexVal(s[i]) < 0
    THEN NoDigest
    ELSE [i \in 1..DigestBytes |-> 16 * HexVal(s[2 * i - 1]) + HexVal(s[2 * i])]

DecChars == <<"0", "1", "2", "3", "4", "5", "6", "7", "8", "9">>

\* Display of a u64
RECURSIVE to_decimal(_)
to_decimal(n) ==
    IF n < 10 THEN <<DecChars[n + 1]>>
    ELSE to_decimal(n \div 10) \o <<DecChars[(n % 10) + 1]>>

IsDecDigit(c) == \E i \in 1..10 : DecChars[i] = c

DecVal(c) == (CHOOSE i \in 1..10 : DecChars[i] = c) - 1

RECURSIVE DigitsValue(_)
DigitsValue(ds) ==
    IF ds = <<>> THEN 0
    ELSE 10 * DigitsValue(SubSeq(ds, 1, Len(ds) - 1)) + DecVal(ds[Len(ds)])

\* u64::MAX
U64Max == 2^U64Bits - 1

\* as parse_u64, but the value no more than i64::MAX
parse_u64_AsI64(s) ==
    LET digits == IF s # <<>> /\ Head(s) = "+" THEN Tail(s) ELSE s
    IN  IF digits = <<>> \/ \E i \in 1..Len(digits) : ~IsDecDigit(digits[i])
        THEN -1
        ELSE IF DigitsValue(digits) > U64Max \div 2 THEN -1
        ELSE DigitsValue(digits)

\* str::parse::<u64>: an optional '+', then one or more decimal digits, the
\* value no more than u64::MAX; -1 is a parse error
parse_u64(s) ==
    LET digits == IF s # <<>> /\ Head(s) = "+" THEN Tail(s) ELSE s
    IN  IF digits = <<>> \/ \E i \in 1..Len(digits) : ~IsDecDigit(digits[i])
        THEN -1
        ELSE IF DigitsValue(digits) > U64Max THEN -1
        ELSE DigitsValue(digits)

\* position of the first c in s, 0 if there is none
FirstIndex(s, c) ==
    IF \E i \in 1..Len(s) : s[i] = c
    THEN CHOOSE i \in 1..Len(s) : s[i] = c /\ \A j \in 1..(i - 1) : s[j] # c
    ELSE 0

\* str::split(sep): the pieces between separators (always at least one)
RECURSIVE split(_, _)
split(s, sep) ==
    LET i == FirstIndex(s, sep)
    IN  IF i = 0 THEN <<s>>
        ELSE <<SubSeq(s, 1, i - 1)>> \o split(SubSeq(s, i + 1, Len(s)), sep)

----------------------------------------------------------------------------
(* Shadow record (blob.rs) *)

BlobShadow(content_hash, size) == [content_hash |-> content_hash, size |-> size]

MalformedBlobShadow == [content_hash |-> NoDigest, size |-> -1]

\* Display for BlobShadow: "sha256 {hex}\nsize {size}\n"
to_bytes(shadow) ==
    Str_sha256 \o <<SP>> \o to_hex(shadow.content_hash) \o <<LF>>
        \o Str_size \o <<SP>> \o to_decimal(shadow.size) \o <<LF>>

\* the value of a line "<key> <value>" (str::split_once(' ')), or NoValue
NoValue == <<"\t">>

KeyedValue(line, key) ==
    LET i == FirstIndex(line, SP)
    IN  IF i = 0 \/ SubSeq(line, 1, i - 1) # key THEN NoValue
        ELSE SubSeq(line, i + 1, Len(line))

\* FromStr for BlobShadow
from_bytes(shadow_content) ==
    LET it == split(shadow_content, LF)
        hash == IF Len(it) >= 1 THEN KeyedValue(it[1], Str_sha256) ELSE NoValue
        size == IF Len(it) >= 2 THEN KeyedValue(it[2], Str_size) ELSE NoValue
    IN  IF hash = NoValue \/ from_hex(hash) = NoDigest THEN MalformedBlobShadow
        ELSE IF size = NoValue \/ parse_u64(size) < 0 THEN MalformedBlobShadow
        ELSE IF Len(it) # 3 \/ it[3] # <<>> THEN MalformedBlobShadow
        ELSE BlobShadow(from_hex(hash), parse_u64(size))

----------------------------------------------------------------------------
(* Shadow record with an optional size (shadow.rs) *)

\* Option<u64>::None
NoSize == -1

Shadow(content_hash, size) == [content_hash |-> content_hash, size |-> size]

MalformedShadow == [content_hash |-> NoDigest, size |-> NoSize]

\* Display for Shadow: "sha256 {hex}\n", then "size {size}\n" if there is one
Shadow_to_bytes(shadow) ==
    Str_sha256 \o <<SP>> \o to_hex(shadow.content_hash) \o <<LF>>
        \o (IF shadow.size # NoSize
            THEN Str_size \o <<SP>> \o to_decimal(shadow.size) \o <<LF>>
            ELSE <<>>)

\* the characters of the class [a-z0-9]
LowerAlnum ==
    {HexChars[i] : i \in 1..16}
        \cup {"g", "h", "i", "j", "k", "l", "m", "n", "o", "p", "q", "r", "s",
              "t", "u", "v", "w", "x", "y", "z"}

\* the captures of ^sha256 ([a-z0-9]{64})\n(size ([0-9]+)\n)?$ in s: the two
\* groups, or no match; a group that took no part is NoValue
RegexCaptures(s) ==
    LET head == Str_sha256 \o <<SP>>
        hexlen == 2 * DigestBytes
        hash == SubSeq(s, Len(head) + 1, Len(head) + hexlen)
        rest == SubSeq(s, Len(head) + hexlen + 2, Len(s))
        size == SubSeq(rest, Len(Str_size) + 2, Len(rest) - 1)
        front == /\ Len(s) >= Len(head) + hexlen + 1
                 /\ SubSeq(s, 1, Len(head)) = head
                 /\ \A i \in 1..hexlen : hash[i] \in LowerAlnum
                 /\ s[Len(head) + hexlen + 1] = LF
    IN  IF ~front THEN [matched |-> FALSE, sha256 |-> NoValue, size |-> NoValue]
        ELSE IF rest = <<>> THEN [matched |-> TRUE, sha256 |-> hash, size |-> NoValue]
        ELSE IF /\ Len(rest) >= Len(Str_size) + 3
                /\ SubSeq(rest, 1, Len(Str_size) + 1) = Str_size \o <<SP>>
                /\ rest[Len(rest)] = LF
                /\ \A i \in 1..Len(size) : IsDecDigit(size[i])
        THEN [matched |-> TRUE, sha256 |-> hash, size |-> size]
        ELSE [matched |-> FALSE, sha256 |-> NoValue, size |-> NoValue]

\* FromStr for Shadow
Shadow_from_bytes(shadow_content) ==
    LET caps == RegexCaptures(shadow_content)
    IN  IF ~caps.matched THEN MalformedShadow
        ELSE IF from_hex(caps.sha256) = NoDigest THEN MalformedShadow
        ELSE IF caps.size = NoValue THEN Shadow(from_hex(caps.sha256), NoSize)
        ELSE IF parse_u64(caps.size) < 0 THEN MalformedShadow
        ELSE Shadow(from_hex(caps.sha256), parse_u64(caps.size))

----------------------------------------------------------------------------
(* Entry names (entry.rs, paths.rs) *)

MARKER == <<"0">>
CHILD_PREFIX == <<"0", "_">>

\* path components the models draw from
CompA == <<"a">>
CompB == <<"b">>
Components == {CompA, CompB}

\* BulkTreeEntryName::Marker.encode()
encode_marker == MARKER

\* BulkTreeEntryName::Child(child).encode(), BulkPathComponent::encode()
encode_child(child) == CHILD_PREFIX \o child

\* str::strip_prefix
HasPrefix(s, prefix) == Len(s) >= Len(prefix) /\ SubSeq(s, 1, Len(prefix)) = prefix

\* BulkTreeEntryName::decode: Marker, Child(rest) or an error; the rest after
\* "0_" is taken as it is
decode(encoded) ==
    IF encoded = MARKER THEN [tag |-> "Marker", child |-> <<>>]
    ELSE IF HasPrefix(encoded, CHILD_PREFIX)
         THEN [tag |-> "Child", child |-> SubSeq(encoded, Len(CHILD_PREFIX) + 1, Len(encoded))]
         ELSE [tag |-> "Err", child |-> <<>>]

----------------------------------------------------------------------------
(* Objects of the repository and the tree builder (git2) *)

\* a blob with the given bytes
Blob(data) == [kind |-> "blob", data |-> data, entries |-> <<>>]

\* a tree with the given entries: a map from entry name to (filemode, id)
Tree(entries) == [kind |-> "tree", data |-> <<>>, entries |-> entries]

TreeEntry(filemode, id) == [filemode |-> filemode, id |-> id]

\* Database::empty_blob_oid: the blob written with no bytes
empty_blob_oid == Blob(<<>>)

\* Repository::treebuilder(None) / treebuilder(Some(&tree))
treebuilder_new == <<>>
treebuilder_from(tree) == tree.entries

\* TreeBuilder::get(name).is_some()
builder_has(builder, name) == name \in DOMAIN builder

\* TreeBuilder::remove(name)
builder_remove(builder, name) == [n \in (DOMAIN builder) \ {name} |-> builder[n]]

\* TreeBuilder::insert(name, id, filemode): replaces an entry of that name
builder_insert(builder, name, id, filemode) ==
    [n \in (DOMAIN builder) \cup {name} |->
        IF n = name THEN TreeEntry(filemode, id) ELSE builder[n]]

\* TreeBuilder::write()
builder_write(builder) == Tree(builder)

\* outcomes of a fallible call: Ok(tree id), Err(what) or a panic
Ok(tree) == [st |-> "ok", err |-> "", tree |-> tree]
Err(what) == [st |-> "err", err |-> what, tree |-> empty_blob_oid]
Panic(what) == [st |-> "panic", err |-> what, tree |-> empty_blob_oid]

----------------------------------------------------------------------------
(* append (database/append.rs) *)

\* Database::append_inner_create: a fresh chain of bulk trees, each with its
\* marker, ending in (mode, object)
RECURSIVE append_inner_create(_, _, _)
append_inner_create(path, mode, object) ==
    LET withMarker == builder_insert(treebuilder_new, encode_marker,
                                     empty_blob_oid, FileModeBlob)
        head == Head(path)
        tail == Tail(path)
        head_oid == IF tail = <<>> THEN object
                    ELSE append_inner_create(tail, mode, object)
        head_mode == IF tail = <<>> THEN mode ELSE FileModeTree
    IN  builder_write(builder_insert(withMarker, encode_child(head), head_oid, head_mode))

\* as AppendReplace, but on a builder opened with treebuilder(None): the
\* other entries of the directory are lost
AppendReplace_FreshBuilder(builder, name, head_oid, head_mode) ==
    Ok(builder_write(builder_insert(
        builder_insert(treebuilder_new, encode_marker, empty_blob_oid, FileModeBlob),
        name, head_oid, head_mode)))

\* the tail of append_inner: drop an entry named head, insert the new one, write
AppendReplace(builder, name, head_oid, head_mode) ==
    LET dropped == IF builder_has(builder, name)
                   THEN builder_remove(builder, name) ELSE builder
    IN  Ok(builder_write(builder_insert(dropped, name, head_oid, head_mode)))

\* Database::append_inner
RECURSIVE append_inner(_, _, _, _, _)
append_inner(tree, path, mode, object, can_replace) ==
    IF tree.kind # "tree" THEN Err("NotFound")     \* find_tree(big_tree)?
    ELSE
    LET builder == treebuilder_from(tree)
        head == Head(path)
        tail == Tail(path)
        name == encode_child(head)
    IN  IF tail = <<>>
        THEN IF ~can_replace /\ builder_has(builder, name)
             THEN Err("WouldReplace")
             ELSE AppendReplace(builder, name, object, mode)
        ELSE IF ~builder_has(builder, name)
             THEN AppendReplace(builder, name,
                                append_inner_create(tail, mode, object), FileModeTree)
             ELSE IF builder[name].filemode # FileModeTree
                  THEN Panic("assert_eq")
                  ELSE LET sub == append_inner(builder[name].id, tail, mode,
                                               object, can_replace)
                       IN  IF sub.st # "ok" THEN sub
                           ELSE AppendReplace(builder, name, sub.tree, FileModeTree)

\* as append, but can_replace is not handed on
append_IgnoringCanReplace(tree, path, mode, object, can_replace) ==
    append_inner(tree, path, mode, object, TRUE)

\* Database::append (path non-empty)
append(tree, path, mode, object, can_replace) ==
    append_inner(tree, path, mode, object, can_replace)

----------------------------------------------------------------------------
(* remove (database/remove.rs) *)

\* as remove_inner, but a directory left with its marker alone is dropped
\* from its parent
RECURSIVE remove_inner_Pruning(_, _)
remove_inner_Pruning(tree, path) ==
    IF tree.kind # "tree" THEN Err("NotFound")
    ELSE
    LET builder == treebuilder_from(tree)
        name == encode_child(Head(path))
    IN  IF ~builder_has(builder, name) THEN Err("NotFound")
        ELSE LET removed == builder_remove(builder, name)
             IN  IF Tail(path) = <<>> THEN Ok(builder_write(removed))
                 ELSE LET sub == remove_inner_Pruning(builder[name].id, Tail(path))
                      IN  IF sub.st # "ok" THEN sub
                          ELSE IF DOMAIN sub.tree.entries = {MARKER}
                               THEN Ok(builder_write(removed))
                               ELSE Ok(builder_write(builder_insert(removed, name, sub.tree,
                                                                    builder[name].filemode)))

\* Database::remove_inner
RECURSIVE remove_inner(_, _)
remove_inner(tree, path) ==
    IF tree.kind # "tree" THEN Err("NotFound")     \* find_tree(big_tree)?
    ELSE
    LET builder == treebuilder_from(tree)
        head == Head(path)
        tail == Tail(path)
        name == encode_child(head)
    IN  IF ~builder_has(builder, name) THEN Err("NotFound")
        ELSE LET old_entry == builder[name]
                 removed == builder_remove(builder, name)
             IN  IF tail = <<>> THEN Ok(builder_write(removed))
                 ELSE LET sub == remove_inner(old_entry.id, tail)
                      IN  IF sub.st # "ok" THEN sub
                          ELSE Ok(builder_write(builder_insert(removed, name, sub.tree,
                                                               old_entry.filemode)))

\* as remove, but a path that does not resolve is no error
remove_Lenient(tree, path) ==
    LET out == remove_inner(tree, path)
    IN  IF out.st = "err" THEN Ok(tree) ELSE out

\* Database::remove (path non-empty)
remove(tree, path) == remove_inner(tree, path)

----------------------------------------------------------------------------
(* Path resolution in a bulk tree: the entry reached by following the      *)
(* encoded components; every component but the last must lead to a tree.   *)

NotResolved == [found |-> FALSE, filemode |-> 0, id |-> empty_blob_oid]

RECURSIVE Resolve(_, _)
Resolve(tree, path) ==
    IF tree.kind # "tree" \/ path = <<>> THEN NotResolved
    ELSE LET name == encode_child(Head(path))
         IN  IF name \notin DOMAIN tree.entries THEN NotResolved
             ELSE LET e == tree.entries[name]
                  IN  IF Tail(path) = <<>>
                      THEN [found |-> TRUE, filemode |-> e.filemode, id |-> e.id]
                      ELSE IF e.filemode # FileModeTree THEN NotResolved
                      ELSE Resolve(e.id, Tail(path))

Resolves(tree, path) == Resolve(tree, path).found

IsPrefix(q, p) == Len(q) <= Len(p) /\ SubSeq(p, 1, Len(q)) = q
IsStrictPrefix(q, p) == Len(q) < Len(p) /\ IsPrefix(q, p)

\* longest path the properties look up
QueryDepth == 4

RECURSIVE PathsOfLen(_)
PathsOfLen(n) ==
    IF n = 0 THEN {<<>>}
    ELSE {<<c>> \o q : c \in Components, q \in PathsOfLen(n - 1)}

QueryPaths == UNION {PathsOfLen(n) : n \in 1..QueryDepth}

\* has the marker entry: name "0", mode 0o100644, the empty blob
HasMarker(tree) ==
    /\ tree.kind = "tree"
    /\ MARKER \in DOMAIN tree.entries
    /\ tree.entries[MARKER] = TreeEntry(FileModeBlob, empty_blob_oid)

----------------------------------------------------------------------------
(* SpecTree: structural operations applied one after another to a tree *)

\* a digest of DigestBytes equal bytes
Digest(b) == [i \in 1..DigestBytes |-> b]

ShadowX == BlobShadow(Digest(170), 11)
ShadowY == BlobShadow(Digest(11), 4096)

FileX == Blob(to_bytes(ShadowX))
FileY == Blob(to_bytes(ShadowY))
LinkT == Blob(<<"t">>)

MarkerOnly == builder_insert(treebuilder_new, encode_marker, empty_blob_oid, FileModeBlob)

EmptyBulkTree == builder_write(MarkerOnly)

\* a planted directory holding one executable file "b"
DirObj == builder_write(builder_insert(MarkerOnly, encode_child(CompB), FileY,
                                       FileModeBlobExecutable))

\* the planted objects append is given
Planted == {
    [mode |-> FileModeBlob, object |-> FileX],
    [mode |-> FileModeLink, object |-> LinkT],
    [mode |-> FileModeTree, object |-> DirObj] }

\* the paths append and remove are given
OpPaths == {
    <<CompA>>, <<CompB>>, <<CompA, CompB>>, <<CompB, CompA>>,
    <<CompA, CompB, CompA>> }

\* a planted tree:  a/ (b -> X),  b -> link
SeedTree ==
    builder_write(
        builder_insert(
            builder_insert(MarkerOnly, encode_child(CompA),
                builder_write(builder_insert(MarkerOnly, encode_child(CompB), FileX,
                                             FileModeBlob)),
                FileModeTree),
            encode_child(CompB), LinkT, FileModeLink))

NoCall == [op |-> "none", tree |-> EmptyBulkTree, path |-> <<>>,
           mode |-> 0, object |-> empty_blob_oid, can_replace |-> FALSE,
           out |-> Err(""), undoes |-> FALSE, orig |-> EmptyBulkTree]

\* `bkp append`: append to the current tree; the tree it prints is the next
\* current tree
AppendCmd(path, mode, object, can_replace) ==
    /\ nops < MaxOps
    /\ LET out == append(big_tree, path, mode, object, can_replace)
       IN  /\ last' = [op |-> "append", tree |-> big_tree, path |-> path,
                       mode |-> mode, object |-> object,
                       can_replace |-> can_replace, out |-> out,
                       undoes |-> FALSE, orig |-> EmptyBulkTree]
           /\ big_tree' = IF out.st = "ok" THEN out.tree ELSE big_tree
    /\ nops' = nops + 1
    /\ UNCHANGED <<storeVars, plantVars, walkVars, snapVars, diffVars, codecVars, mountVars, cliVars>>

\* remove from the current tree.  undoes/orig remember whether the call
\* before was a successful append(orig, path, .., true) of the same path.
RemoveCmd(path) ==
    /\ nops < MaxOps
    /\ LET out == remove(big_tree, path)
           undoes == /\ last.op = "append"
                     /\ last.can_replace
                     /\ last.out.st = "ok"
                     /\ last.path = path
       IN  /\ last' = [op |-> "remove", tree |-> big_tree, path |-> path,
                       mode |-> 0, object |-> empty_blob_oid,
                       can_replace |-> FALSE, out |-> out,
                       undoes |-> undoes,
                       orig |-> IF undoes THEN last.tree ELSE EmptyBulkTree]
           /\ big_tree' = IF out.st = "ok" THEN out.tree ELSE big_tree
    /\ nops' = nops + 1
    /\ UNCHANGED <<storeVars, plantVars, walkVars, snapVars, diffVars, codecVars, mountVars, cliVars>>

TreeNext ==
    \/ \E path \in OpPaths, po \in Planted, can_replace \in BOOLEAN :
           AppendCmd(path, po.mode, po.object, can_replace)
    \/ \E path \in OpPaths : RemoveCmd(path)

----------------------------------------------------------------------------
(* Properties of append and remove, checked under SpecTree *)

LastAppendForced == last.op = "append" /\ last.can_replace /\ last.out.st = "ok"

SameEntry(t1, t2, q) == Resolve(t1, q) = Resolve(t2, q)

C2_AppendWouldReplace ==
    (last.op = "append" /\ ~last.can_replace /\ Resolves(last.tree, last.path))
        => (last.out.st = "err" /\ last.out.err = "WouldReplace")

\* an unforced append of the very entry that is already there, two levels
\* down, was refused
C2_Witness ==
    /\ last.op = "append" /\ ~last.can_replace
    /\ Len(last.path) >= 2
    /\ Resolve(last.tree, last.path)
           = [found |-> TRUE, filemode |-> last.mode, id |-> last.object]
    /\ last.out.err = "WouldReplace"
    /\ big_tree = last.tree

\* the entry names of the directory at prefix q of path once an entry
\* appended at path was removed again: the names it had in orig (its marker
\* alone if the append created it), and the next component of path
NamesAfterUndo(orig, q, path) ==
    (IF Resolves(orig, q) THEN DOMAIN Resolve(orig, q).id.entries ELSE {MARKER})
        \cup {encode_child(path[Len(q) + 1])}

C4_Remove ==
    last.op = "remove" =>
        IF ~Resolves(last.tree, last.path)
        THEN last.out.st = "err" /\ last.out.err = "NotFound"
        ELSE /\ last.out.st = "ok"
             /\ \A q \in QueryPaths :
                    /\ IsPrefix(last.path, q) => ~Resolves(last.out.tree, q)
                    /\ (~IsPrefix(last.path, q) /\ ~IsPrefix(q, last.path))
                           => SameEntry(last.out.tree, last.tree, q)
                    /\ IsStrictPrefix(q, last.path) =>
                           /\ Resolve(last.out.tree, q).filemode = FileModeTree
                           /\ HasMarker(Resolve(last.out.tree, q).id)

\* the only child of a directory was removed and the directory stays, empty
\* but for its marker
C4_Witness ==
    /\ last.op = "remove" /\ last.out.st = "ok"
    /\ Len(last.path) >= 2
    /\ Resolve(last.tree, last.path).filemode = FileModeTree
    /\ LET parent == SubSeq(last.path, 1, Len(last.path) - 1)
       IN  DOMAIN Resolve(last.out.tree, parent).id.entries = {MARKER}

\* remove also was refused: a component before the last is a file
C4_WitnessNotTree ==
    /\ last.op = "remove" /\ last.out.st = "err"
    /\ Len(last.path) >= 2
    /\ Resolves(last.tree, SubSeq(last.path, 1, 1))
    /\ Resolve(last.tree, SubSeq(last.path, 1, 1)).filemode # FileModeTree

\* the last call was an append whose path runs through an entry that is no
\* tree: a file shadow or a symlink
AppendThroughNonTree ==
    /\ last.op = "append"
    /\ \E q \in QueryPaths :
           /\ IsStrictPrefix(q, last.path)
           /\ Resolves(last.tree, q)
           /\ Resolve(last.tree, q).filemode # FileModeTree

\* C25: append(T, p, m, o, r) where a proper prefix of p resolves in T to an
\* entry that is no tree succeeds for either r: in the tree returned every
\* proper prefix of p is a bulk tree with its marker, and p resolves to
\* (m, o).
C25_AppendReplacesNonTreeAbove ==
    AppendThroughNonTree =>
        /\ last.out.st = "ok"
        /\ Resolve(last.out.tree, last.path)
               = [found |-> TRUE, filemode |-> last.mode, id |-> last.object]
        /\ \A q \in QueryPaths :
               IsStrictPrefix(q, last.path) =>
                   /\ Resolve(last.out.tree, q).filemode = FileModeTree
                   /\ HasMarker(Resolve(last.out.tree, q).id)

----------------------------------------------------------------------------
(* Blob store (blob_store.rs) *)

\* FilesystemRealBlobStorage::SPLIT
SPLIT == 3

\* file contents: byte strings.  The source files callers hand to store:
SrcShort == <<1>>
SrcLong == <<1, 2>>
Sources == {SrcShort, SrcLong}

\* a digest whose bytes are b, but for the last, which is z
DigestEnding(b, z) == [i \in 1..DigestBytes |-> IF i = DigestBytes THEN z ELSE b]

\* SHA-256 of a file's bytes: distinct contents have distinct digests
Sha256(content) ==
    CASE content = <<>> -> DigestEnding(227, 176)
      [] content = SrcShort -> DigestEnding(170, 161)
      [] content = SrcLong -> DigestEnding(170, 162)
      [] OTHER -> DigestEnding(255, Len(content))

\* sha256sum_coreutils: the tool prints the digest in hex, "<hex> *<path>\0";
\* the digest group is parsed back
sha256sum(content) == from_hex(to_hex(Sha256(content)))

\* as check_sha256sum, but the comparison is left out
check_sha256sum_Unchecked(expected, content) == TRUE

\* check_sha256sum: assert_eq!(expected, observed); FALSE is the failed assert
check_sha256sum(expected, content) == expected = sha256sum(content)

\* FilesystemRealBlobStorage::blob_relative_path: hex.split_off(SPLIT)
blob_relative_path(blob) ==
    LET hex == to_hex(blob)
    IN  <<SubSeq(hex, 1, SPLIT), SubSeq(hex, SPLIT + 1, Len(hex))>>

blob_dir == "blobs"
partial_dir == "partial"

\* FilesystemRealBlobStorage::blob_parent / partial_parent
blob_parent(blob) == <<blob_dir, blob_relative_path(blob)[1]>>
partial_parent(blob) == <<partial_dir, blob_relative_path(blob)[1]>>

\* FilesystemRealBlobStorage::blob_path
blob_path(blob) ==
    <<blob_dir, blob_relative_path(blob)[1], blob_relative_path(blob)[2]>>

\* as partial_path, but joined onto the canonical directory
partial_path_InBlobDir(blob) ==
    <<blob_dir, blob_relative_path(blob)[1], blob_relative_path(blob)[2]>>

\* FilesystemRealBlobStorage::partial_path
partial_path(blob) ==
    <<partial_dir, blob_relative_path(blob)[1], blob_relative_path(blob)[2]>>

\* Path::is_file
is_file(path) == path \in DOMAIN files

\* Path::exists
exists(path) == path \in DOMAIN files \/ path \in dirs

\* RealBlobStorage::have_blob
have_blob(blob) == is_file(blob_path(blob))

\* RealBlobStorage::check_blob: "ok", "err" (sha256sum finds no file) or
\* "panic" (the assert of check_sha256sum)
check_blob(blob) ==
    IF ~is_file(blob_path(blob)) THEN "err"
    ELSE IF check_sha256sum(blob, files[blob_path(blob)]) THEN "ok"
    ELSE "panic"

\* the file system with a file created or rewritten / unlinked
WriteFile(path, content) == [q \in (DOMAIN files) \cup {path} |->
                                IF q = path THEN content ELSE files[q]]
Unlink(path) == [q \in (DOMAIN files) \ {path} |-> files[q]]

Callers == {1, 2}

\* the hashes callers ask to store
Hashes == {Sha256(SrcShort), Sha256(SrcLong)}

Idle == [pc |-> "idle", blob |-> Sha256(<<>>), src |-> <<>>, result |-> "",
         at |-> "", pre_have |-> FALSE, pre_staged |-> FALSE, retry_of |-> "",
         after_mismatch |-> FALSE]

\* the call returns (or unwinds) with the given result from the step `at`
Returned(c, result) ==
    [store EXCEPT ![c].pc = "returned", ![c].result = result, ![c].at = store[c].pc]

Goto(c, pc) == [store EXCEPT ![c].pc = pc]

\* store(blob, src) is called; line 76: if self.have_blob(blob) return Ok(())
StoreCall(c, blob, src) ==
    /\ store[c].pc \in {"idle", "returned"}
    /\ nstores < MaxStores
    /\ nstores' = nstores + 1
    /\ LET call == [pc |-> "partial_parent_exists", blob |-> blob, src |-> src,
                    result |-> "", at |-> "",
                    pre_have |-> have_blob(blob),
                    pre_staged |-> is_file(partial_path(blob)),
                    retry_of |-> IF store[c].result = "interrupted"
                                    /\ store[c].blob = blob /\ store[c].src = src
                                 THEN store[c].at ELSE "",
                    after_mismatch |-> /\ store[c].result \notin {"ok", "interrupted"}
                                       /\ store[c].at = "check_sha256sum"
                                       /\ store[c].blob = blob]
       IN  store' = [store EXCEPT ![c] =
                        IF have_blob(blob)
                        THEN [call EXCEPT !.pc = "returned", !.result = "ok",
                                          !.at = "have_blob"]
                        ELSE call]
    /\ UNCHANGED <<files, dirs, treeVars, plantVars, walkVars, snapVars, diffVars, codecVars, mountVars, cliVars>>

\* lines 86-89: if partial_parent.exists() { assert!(is_dir) } else ...
PartialParentExists(c) ==
    /\ store[c].pc = "partial_parent_exists"
    /\ store' = Goto(c, IF exists(partial_parent(store[c].blob))
                        THEN "create_partial" ELSE "create_partial_parent")
    /\ UNCHANGED <<files, dirs, nstores, treeVars, plantVars, walkVars, snapVars, diffVars, codecVars, mountVars, cliVars>>

\* line 90: fs::create_dir(&partial_parent)?
CreatePartialParent(c) ==
    /\ store[c].pc = "create_partial_parent"
    /\ IF exists(partial_parent(store[c].blob))
       THEN store' = Returned(c, "AlreadyExists") /\ dirs' = dirs
       ELSE store' = Goto(c, "create_partial")
            /\ dirs' = dirs \cup {partial_parent(store[c].blob)}
    /\ UNCHANGED <<files, nstores, treeVars, plantVars, walkVars, snapVars, diffVars, codecVars, mountVars, cliVars>>

\* lines 93-96: OpenOptions::new().create_new(true).write(true).open(&partial_path)?
CreatePartial(c) ==
    /\ store[c].pc = "create_partial"
    /\ IF exists(partial_path(store[c].blob))
       THEN store' = Returned(c, "AlreadyExists") /\ files' = files
       ELSE store' = Goto(c, "copy")
            /\ files' = WriteFile(partial_path(store[c].blob), <<>>)
    /\ UNCHANGED <<dirs, nstores, treeVars, plantVars, walkVars, snapVars, diffVars, codecVars, mountVars, cliVars>>

\* line 106: io::copy(&mut source_file, &mut partial_file)?, a byte at a time
Copy(c) ==
    /\ store[c].pc = "copy"
    /\ LET path == partial_path(store[c].blob)
           n == Len(files[path])
       IN  IF n < Len(store[c].src)
           THEN /\ files' = WriteFile(path, SubSeq(store[c].src, 1, n + 1))
                /\ store' = store
           ELSE /\ files' = files
                /\ store' = Goto(c, "check_sha256sum")
    /\ UNCHANGED <<dirs, nstores, treeVars, plantVars, walkVars, snapVars, diffVars, codecVars, mountVars, cliVars>>

\* line 108: check_sha256sum(blob, &partial_path)?
Check(c) ==
    /\ store[c].pc = "check_sha256sum"
    /\ store' = IF check_sha256sum(store[c].blob, files[partial_path(store[c].blob)])
                THEN Goto(c, "blob_parent_exists")
                ELSE Returned(c, "panic")
    /\ UNCHANGED <<files, dirs, nstores, treeVars, plantVars, walkVars, snapVars, diffVars, codecVars, mountVars, cliVars>>

\* lines 110-113
BlobParentExists(c) ==
    /\ store[c].pc = "blob_parent_exists"
    /\ store' = Goto(c, IF exists(blob_parent(store[c].blob))
                        THEN "hard_link" ELSE "create_blob_parent")
    /\ UNCHANGED <<files, dirs, nstores, treeVars, plantVars, walkVars, snapVars, diffVars, codecVars, mountVars, cliVars>>

\* line 114: fs::create_dir(blob_parent)?
CreateBlobParent(c) ==
    /\ store[c].pc = "create_blob_parent"
    /\ IF exists(blob_parent(store[c].blob))
       THEN store' = Returned(c, "AlreadyExists") /\ dirs' = dirs
       ELSE store' = Goto(c, "hard_link")
            /\ dirs' = dirs \cup {blob_parent(store[c].blob)}
    /\ UNCHANGED <<files, nstores, treeVars, plantVars, walkVars, snapVars, diffVars, codecVars, mountVars, cliVars>>

\* line 117: fs::hard_link(&partial_path, &blob_path)?.  Nothing writes to
\* a file once it is linked, so the link is modelled by its content.
HardLink(c) ==
    /\ store[c].pc = "hard_link"
    /\ IF exists(blob_path(store[c].blob))
       THEN store' = Returned(c, "AlreadyExists") /\ files' = files
       ELSE store' = Goto(c, "remove_file")
            /\ files' = WriteFile(blob_path(store[c].blob),
                                  files[partial_path(store[c].blob)])
    /\ UNCHANGED <<dirs, nstores, treeVars, plantVars, walkVars, snapVars, diffVars, codecVars, mountVars, cliVars>>

\* lines 118-119: fs::remove_file(&partial_path)?; Ok(())
RemoveFile(c) ==
    /\ store[c].pc = "remove_file"
    /\ files' = Unlink(partial_path(store[c].blob))
    /\ store' = Returned(c, "ok")
    /\ UNCHANGED <<dirs, nstores, treeVars, plantVars, walkVars, snapVars, diffVars, codecVars, mountVars, cliVars>>

\* the process is killed in the middle of a store
Interrupt(c) ==
    /\ store[c].pc \notin {"idle", "returned"}
    /\ store' = Returned(c, "interrupted")
    /\ UNCHANGED <<files, dirs, nstores, treeVars, plantVars, walkVars, snapVars, diffVars, codecVars, mountVars, cliVars>>

StoreStep(c) ==
    \/ \E blob \in Hashes, src \in Sources : StoreCall(c, blob, src)
    \/ PartialParentExists(c)
    \/ CreatePartialParent(c)
    \/ CreatePartial(c)
    \/ Copy(c)
    \/ Check(c)
    \/ BlobParentExists(c)
    \/ CreateBlobParent(c)
    \/ HardLink(c)
    \/ RemoveFile(c)
    \/ Interrupt(c)

\* store calls of several processes on one blob store
StoreNext == \E c \in Callers : StoreStep(c)

\* store calls one after another
StoreSeqNext == StoreStep(1)

----------------------------------------------------------------------------
(* Properties of the blob store *)

\* the call of caller c ran to its end: it returned, or it panicked
Completed(c) == store[c].pc = "returned" /\ store[c].result # "interrupted"

\* store(blob, src) returned Ok and check(blob) succeeds
StoreThenCheck(c) == store[c].result = "ok" /\ check_blob(store[c].blob) = "ok"

C5_WitnessMismatch ==
    /\ Completed(1) /\ ~store[1].pre_have
    /\ Sha256(store[1].src) # store[1].blob
    /\ store[1].result = "panic"

\* C6: in every state - between the steps of a store, after an interrupted
\* or failed store - every file under blobs/ holds content whose SHA-256 is
\* the hash its path spells; what is being copied or awaits verification is a
\* file under partial/.
C6_CanonicalFilesVerified ==
    /\ \A path \in DOMAIN files :
           path[1] = blob_dir
               => to_hex(sha256sum(files[path])) = path[2] \o path[3]
    /\ \A c \in Callers :
           store[c].pc \in {"copy", "check_sha256sum"}
               => /\ partial_path(store[c].blob)[1] = partial_dir
                  /\ is_file(partial_path(store[c].blob))

\* a verified file is under blobs/ while a staging file holds bytes that do
\* not hash to its name
C6_Witness ==
    /\ \E path \in DOMAIN files : path[1] = blob_dir
    /\ \E path \in DOMAIN files :
           /\ path[1] = partial_dir
           /\ to_hex(sha256sum(files[path])) # path[2] \o path[3]

\* the steps of store after the staging copy and before the hard link
AfterCopyBeforeLink ==
    {"check_sha256sum", "blob_parent_exists", "create_blob_parent", "hard_link"}

\* C7: a store(H, src) interrupted after the staging copy and before the
\* hard link leaves no file at the canonical path of H, and the same store
\* called again with its correct source succeeds and leaves have(H) true.
C7_RetryAfterInterruptSucceeds ==
    \A c \in Callers :
        /\ (store[c].pc = "returned" /\ store[c].result = "interrupted"
              /\ store[c].at \in AfterCopyBeforeLink)
               => ~have_blob(store[c].blob)
        /\ (Completed(c) /\ store[c].retry_of \in AfterCopyBeforeLink
              /\ Sha256(store[c].src) = store[c].blob)
               => (store[c].result = "ok" /\ have_blob(store[c].blob))

\* the call of caller c ended at the verification of the staged copy, which
\* did not hash to the blob asked for
EndedAtMismatch(c) ==
    /\ Completed(c)
    /\ store[c].at = "check_sha256sum"
    /\ store[c].result # "ok"

\* C22: when store(h, src) finds that the SHA-256 of the staged copy differs
\* from h, it returns the HashMismatch error and does not abort; no staging
\* file of h remains and no canonical file was made; and a store(h, src')
\* with a correct source that follows it succeeds.
C22_HashMismatchCleansUp ==
    \A c \in Callers :
        /\ EndedAtMismatch(c) =>
               /\ store[c].result = "HashMismatch"
               /\ ~is_file(partial_path(store[c].blob))
               /\ ~have_blob(store[c].blob)
        /\ (Completed(c) /\ store[c].after_mismatch
              /\ Sha256(store[c].src) = store[c].blob)
               => store[c].result = "ok"

\* the two callers each made one call, on an empty blob store, for the same
\* hash and with a source that hashes to it, and neither was killed
RacingStores ==
    /\ nstores = 2
    /\ store[1].blob = store[2].blob
    /\ \A c \in Callers :
           /\ store[c].pc # "idle"
           /\ store[c].result # "interrupted"
           /\ Sha256(store[c].src) = store[c].blob

\* C23: of two concurrent store(h, src) calls for the same hash whose source
\* hashes to h, a call that does not succeed fails with AlreadyExists at the
\* exclusive creation of its staging file, before it copies any data; a call
\* that starts when the canonical file is linked returns Ok at have_blob;
\* and when both have returned no staging file of h is left.
C23_RacingStoresFailAtStaging ==
    RacingStores =>
        /\ \A c \in Callers :
               (Completed(c) /\ store[c].result # "ok") =>
                   /\ store[c].result = "AlreadyExists"
                   /\ store[c].at = "create_partial"
        /\ \A c \in Callers :
               store[c].pre_have =>
                   /\ store[c].pc = "returned"
                   /\ store[c].result = "ok"
                   /\ store[c].at = "have_blob"
        /\ (\A c \in Callers : Completed(c)) =>
               ~is_file(partial_path(store[1].blob))

----------------------------------------------------------------------------
(* Tree planter (database/snapshot.rs) *)

\* SnapshotEntryValue::Tree, ::Link { target }, ::File { digest, executable }
ValueTree == [ty |-> "Tree", digest |-> NoDigest, executable |-> FALSE, target |-> <<>>]
ValueLink(target) ==
    [ty |-> "Link", digest |-> NoDigest, executable |-> FALSE, target |-> target]
ValueFile(digest, executable) ==
    [ty |-> "File", digest |-> digest, executable |-> executable, target |-> <<>>]

\* SnapshotEntry { path, value }: the path is its sequence of components
SnapshotEntry(path, value) == [path |-> path, value |-> value]

\* Path::parent of a non-empty path
Parent(path) == SubSeq(path, 1, Len(path) - 1)

\* what plant_snapshot_inner returns: (mode, oid), and the entries it left
Planting(st, mode, oid, rest) == [st |-> st, mode |-> mode, oid |-> oid, rest |-> rest]

RECURSIVE plant_snapshot_inner(_, _)
RECURSIVE plant_children(_, _, _)

\* the `while let Some(child_candidate) = entries.peek()?` loop of the Tree
\* arm: the builder after the children of entry, and the entries left
plant_children(builder, entries, entry) ==
    IF entries = <<>> THEN [st |-> "ok", builder |-> builder, rest |-> entries]
    ELSE LET child == Head(entries)
         IN  IF child.path = <<>>    \* Path::parent() is None: unwrap panics
             THEN [st |-> "panic", builder |-> builder, rest |-> entries]
             ELSE IF Parent(child.path) # entry.path
             THEN [st |-> "ok", builder |-> builder, rest |-> entries]
             ELSE LET child_name == child.path[Len(child.path)]
                      r == plant_snapshot_inner(Tail(entries), child)
                  IN  IF r.st # "ok"
                      THEN [st |-> r.st, builder |-> builder, rest |-> r.rest]
                      ELSE plant_children(
                               builder_insert(builder, encode_child(child_name),
                                              r.oid, r.mode),
                               r.rest, entry)

\* Database::plant_snapshot_inner
plant_snapshot_inner(entries, entry) ==
    CASE entry.value.ty = "File" ->
             Planting("ok",
                      IF entry.value.executable THEN FileModeBlobExecutable
                                                ELSE FileModeBlob,
                      Blob(to_hex(entry.value.digest) \o <<LF>>),
                      entries)
      [] entry.value.ty = "Link" ->
             Planting("ok", FileModeLink, Blob(entry.value.target), entries)
      [] OTHER ->
             LET r == plant_children(MarkerOnly, entries, entry)
             IN  IF r.st # "ok" THEN Planting(r.st, 0, empty_blob_oid, r.rest)
                 ELSE Planting("ok", FileModeTree, builder_write(r.builder), r.rest)

\* Database::plant_snapshot
plant_snapshot(entries) ==
    IF entries = <<>> THEN Planting("panic", 0, empty_blob_oid, <<>>)
    ELSE IF Head(entries).path # <<>> THEN Planting("panic", 0, empty_blob_oid, <<>>)
    ELSE LET ret == plant_snapshot_inner(Tail(entries), Head(entries))
         IN  IF ret.st = "ok" /\ ret.rest # <<>>
             THEN Planting("panic", 0, empty_blob_oid, ret.rest)
             ELSE ret

----------------------------------------------------------------------------
(* Traverser (database/traverse.rs) *)

\* byte values of the characters entry names are made of
CharCode(c) ==
    CASE c = "." -> 46 [] c = "/" -> 47 [] c = "0" -> 48 [] c = "_" -> 95
      [] c = "a" -> 97 [] c = "b" -> 98 [] c = "x" -> 120 [] OTHER -> 127

\* TreeEntry::kind: the object type the entry's filemode stands for
entry_kind(filemode) ==
    LET format == filemode \div 4096
    IN  IF format = 14 THEN "commit" ELSE IF format = 4 THEN "tree" ELSE "blob"

\* the key a tree orders an entry by: the bytes of its name, a tree's name
\* taken as if it ended in '/'
OrderKey(tree, name) ==
    [i \in 1..Len(name) |-> CharCode(name[i])]
        \o (IF entry_kind(tree.entries[name].filemode) = "tree"
            THEN <<CharCode("/")>> ELSE <<>>)

\* bytewise order, a proper prefix first
LexLess(k1, k2) ==
    \E i \in 1..(Len(k1) + 1) :
        /\ \A j \in 1..(i - 1) : j <= Len(k2) /\ k1[j] = k2[j]
        /\ \/ i = Len(k1) + 1 /\ Len(k2) >= i
           \/ i <= Len(k1) /\ i <= Len(k2) /\ k1[i] < k2[i]

RECURSIVE SortedNames(_, _)
SortedNames(tree, names) ==
    IF names = {} THEN <<>>
    ELSE LET least == CHOOSE n \in names :
                          \A m \in names \ {n} :
                              LexLess(OrderKey(tree, n), OrderKey(tree, m))
         IN  <<least>> \o SortedNames(tree, names \ {least})

\* Tree::iter: the entry names in the order the tree stores them
tree_iter(tree) == SortedNames(tree, DOMAIN tree.entries)

\* the callback sets a Traverser is built with
DefaultCallbacks == "TraversalCallbacks"
CheckCallbacks == "OnUnique<CheckCallbacks>"
UniqueBlobsCallbacks == "OnUnique<UniqueBlobsCallbacks>"
CallbackSets == {DefaultCallbacks, CheckCallbacks, UniqueBlobsCallbacks}

\* a walk under way: its result so far, OnUnique's seen set, and the calls
\* made to the closure unique_blobs was given
NewWalk == [st |-> "ok", seen |-> {}, calls |-> <<>>]

Fail(w) == [w EXCEPT !.st = "err"]

\* RealBlob::from_shadow_file_content: the shadow record the blob content is
from_shadow_file_content(content) == from_bytes(content)

\* Visit<VisitBlob>::read_blob
read_blob(oid) ==
    IF oid.kind # "blob" THEN MalformedBlobShadow
    ELSE from_shadow_file_content(oid.data)

\* OnUnique::on_blob over CheckCallbacks / UniqueBlobsCallbacks::on_blob
on_blob(w, callbacks, path, oid, executable) ==
    IF callbacks = DefaultCallbacks THEN w
    ELSE IF oid \in w.seen THEN w
    ELSE LET w1 == [w EXCEPT !.seen = @ \cup {oid}]
             st_blob == read_blob(oid)
         IN  IF st_blob = MalformedBlobShadow THEN Fail(w1)
             ELSE IF callbacks = UniqueBlobsCallbacks
             THEN [w1 EXCEPT !.calls = Append(@, [path |-> path, oid |-> oid,
                                                   blob |-> st_blob,
                                                   executable |-> executable])]
             ELSE w1

\* OnUnique::on_link over CheckCallbacks::on_link / the default on_link
on_link(w, callbacks, path, oid) ==
    IF callbacks = DefaultCallbacks THEN w
    ELSE IF oid \in w.seen THEN w
    ELSE LET w1 == [w EXCEPT !.seen = @ \cup {oid}]
         IN  IF callbacks = CheckCallbacks /\ oid.kind # "blob" THEN Fail(w1)
             ELSE w1

\* OnUnique::on_tree over the default on_tree
on_tree(w, callbacks, oid) ==
    IF callbacks = DefaultCallbacks THEN [w |-> w, descend |-> TRUE]
    ELSE IF oid \in w.seen THEN [w |-> w, descend |-> FALSE]
    ELSE [w |-> [w EXCEPT !.seen = @ \cup {oid}], descend |-> TRUE]

\* Traverser::ensure_blob_is_empty (empty_blob_oid is never set)
ensure_blob_is_empty(oid) == oid.kind = "blob" /\ Len(oid.data) = 0

RECURSIVE traverse_from(_, _, _, _)
RECURSIVE traverse_entries(_, _, _, _, _, _)

\* the `for entry in tree.iter()` loop of traverse_from
traverse_entries(w, callbacks, path, tree, names, first) ==
    IF names = <<>> THEN w
    ELSE
      LET name == decode(Head(names))
          mode == tree.entries[Head(names)].filemode
          kind == entry_kind(mode)
          oid == tree.entries[Head(names)].id
      IN  IF name.tag = "Err" THEN Fail(w)
          ELSE IF first
          THEN IF /\ name.tag = "Marker"
                  /\ mode = FileModeBlob
                  /\ kind = "blob"
                  /\ ensure_blob_is_empty(oid)
               THEN traverse_entries(w, callbacks, path, tree, Tail(names), FALSE)
               ELSE Fail(w)
          ELSE IF name.tag # "Child" THEN [w EXCEPT !.st = "panic"]
          ELSE
            LET here == Append(path, name.child)
                w1 == CASE kind = "blob" ->
                               IF mode = FileModeLink
                               THEN on_link(w, callbacks, here, oid)
                               ELSE IF mode = FileModeBlob
                               THEN on_blob(w, callbacks, here, oid, TRUE)
                               ELSE IF mode = FileModeBlobExecutable
                               THEN on_blob(w, callbacks, here, oid, FALSE)
                               ELSE Fail(w)
                        [] kind = "tree" ->
                               IF mode = FileModeTree
                               THEN traverse_from(w, callbacks, here, oid)
                               ELSE Fail(w)
                        [] OTHER -> Fail(w)
            IN  IF w1.st # "ok" THEN w1
                ELSE traverse_entries(w1, callbacks, path, tree, Tail(names), FALSE)

\* Traverser::traverse_from
traverse_from(w, callbacks, path, tree) ==
    LET visit == on_tree(w, callbacks, tree)
    IN  IF ~visit.descend THEN visit.w
        ELSE IF tree.kind # "tree" THEN Fail(visit.w)    \* find_tree
        ELSE traverse_entries(visit.w, callbacks, path, tree, tree_iter(tree), TRUE)

\* Traverser::traverse
traverse(callbacks, tree) == traverse_from(NewWalk, callbacks, <<>>, tree)

\* Database::check
check(tree) == traverse(CheckCallbacks, tree)

\* Database::unique_blobs, the closure recording what it is called with
unique_blobs(tree) == traverse(UniqueBlobsCallbacks, tree)

----------------------------------------------------------------------------
(* SpecPlant: a snapshot is planted and the planted tree is walked.         *)
(* SpecWalk: trees of a repository, bulk trees or not, are walked.          *)

\* entries in one snapshot
MaxEntries == 3

SnapshotPaths == {<<>>, <<CompA>>, <<CompB>>, <<CompA, CompB>>}

SnapshotValues ==
    {ValueTree, ValueLink(<<"t">>),
     ValueFile(Digest(170), FALSE), ValueFile(Digest(11), TRUE)}

SnapshotEntries == {SnapshotEntry(p, v) : p \in SnapshotPaths, v \in SnapshotValues}

Snapshots == UNION {[1..n -> SnapshotEntries] : n \in 0..MaxEntries}

NoRoot == [kind |-> "none", data |-> <<>>, entries |-> <<>>]

NotPlanted == Planting("none", 0, empty_blob_oid, <<>>)

NoWalk == [callbacks |-> "none", out |-> NewWalk]

\* non-marker entries in one drawn tree
MaxChildren == 2

\* the empty tree of git, with no marker
EmptyNativeTree == Tree(<<>>)

\* what the entry named "0" of a drawn tree may be
MarkerEntries ==
    {TreeEntry(FileModeBlob, empty_blob_oid),
     TreeEntry(FileModeBlobExecutable, empty_blob_oid),
     TreeEntry(FileModeBlob, FileX)}

\* the trees the drawn trees hold below them
SubTrees ==
    {EmptyNativeTree, EmptyBulkTree, DirObj, SeedTree,
     Tree((encode_child(CompA) :> TreeEntry(FileModeBlob, FileX))),
     builder_write(builder_insert(MarkerOnly, encode_child(CompA),
                                  EmptyNativeTree, FileModeTree))}

\* what another entry of a drawn tree may be: files, links (one whose target
\* bytes are those of the shadow record X), a mode git does not write,
\* subtrees, and a tree-mode entry that names a blob
ChildEntries ==
    {TreeEntry(FileModeBlob, FileX),
     TreeEntry(FileModeBlobExecutable, FileY),
     TreeEntry(FileModeLink, LinkT),
     TreeEntry(FileModeLink, FileX),
     TreeEntry(33204, FileX),
     TreeEntry(FileModeTree, FileY)}
    \cup {TreeEntry(FileModeTree, t) : t \in SubTrees}

\* names of entries other than "0": children a and b, a child with the empty
\* component, and a name without the child prefix
ChildNames == {encode_child(CompA), encode_child(CompB), encode_child(<<>>), <<"x">>}

WalkTrees ==
    {Tree(m @@ c) :
        m \in {<<>>} \cup {(MARKER :> e) : e \in MarkerEntries},
        c \in UNION {[names -> ChildEntries] :
                        names \in {ns \in SUBSET ChildNames : Cardinality(ns) <= MaxChildren}}}

\* `bkp snapshot`: plant the snapshot; the walks start from what it returns
PlantSnapshot ==
    /\ planted = NotPlanted
    /\ planted' = plant_snapshot(snapshot)
    /\ root' = IF planted'.st = "ok" THEN planted'.oid ELSE NoRoot
    /\ UNCHANGED <<snapshot, walk, treeVars, storeVars, snapVars, diffVars, codecVars, mountVars, cliVars>>

\* a walk with the default callbacks
TraverseTree ==
    /\ root # NoRoot
    /\ walk' = [callbacks |-> DefaultCallbacks, out |-> traverse(DefaultCallbacks, root)]
    /\ UNCHANGED <<root, plantVars, treeVars, storeVars, snapVars, diffVars, codecVars, mountVars, cliVars>>

\* `bkp check`
CheckTree ==
    /\ root # NoRoot
    /\ walk' = [callbacks |-> CheckCallbacks, out |-> check(root)]
    /\ UNCHANGED <<root, plantVars, treeVars, storeVars, snapVars, diffVars, codecVars, mountVars, cliVars>>

\* the walk of store_snapshot
UniqueBlobs ==
    /\ root # NoRoot
    /\ walk' = [callbacks |-> UniqueBlobsCallbacks, out |-> unique_blobs(root)]
    /\ UNCHANGED <<root, plantVars, treeVars, storeVars, snapVars, diffVars, codecVars, mountVars, cliVars>>

WalkNext == TraverseTree \/ CheckTree \/ UniqueBlobs

PlantNext == PlantSnapshot \/ TraverseTree \/ CheckTree \/ UniqueBlobs

----------------------------------------------------------------------------
(* Properties of the planter and the traverser *)

\* C8: for every entry sequence plant_snapshot accepts, a walk of the
\* returned tree succeeds, and every file-mode blob in the tree parses as a
\* shadow record with the hash of a file entry of the snapshot at that path,
\* its mode 0o100755 exactly when that entry is executable.
C8_PlantedTreeWalksAndParses ==
    planted.st = "ok" =>
        /\ walk.callbacks \in CallbackSets => walk.out.st = "ok"
        /\ \A q \in QueryPaths :
               LET r == Resolve(root, q)
               IN  (r.found /\ r.filemode \in {FileModeBlob, FileModeBlobExecutable})
                       => \E i \in DOMAIN snapshot :
                              /\ snapshot[i].path = q
                              /\ snapshot[i].value.ty = "File"
                              /\ from_bytes(r.id.data).content_hash
                                     = snapshot[i].value.digest
                              /\ (r.filemode = FileModeBlobExecutable)
                                     <=> snapshot[i].value.executable

\* the NUL character
NUL == "NUL"

\* FromStr for ShadowPathComponent: not empty, not "." or "..", no '/' or NUL
ValidComponent(s) ==
    /\ s # <<".">> /\ s # <<".", ".">>
    /\ \A i \in 1..Len(s) : s[i] \notin {"/", NUL}
    /\ s # <<>>

\* the trees a walk from tree goes down into
RECURSIVE Descended(_)
Descended(tree) ==
    {tree} \cup
    UNION {IF tree.entries[n].filemode = FileModeTree /\ tree.entries[n].id.kind = "tree"
           THEN Descended(tree.entries[n].id) ELSE {} : n \in DOMAIN tree.entries}

\* the marker is the first entry, the others are children with valid names,
\* and every mode is one of the four and fits the kind of its object
BulkTreeWellFormed(tree) ==
    /\ tree.kind = "tree"
    /\ DOMAIN tree.entries # {}
    /\ tree_iter(tree)[1] = MARKER
    /\ tree.entries[MARKER] = TreeEntry(FileModeBlob, empty_blob_oid)
    /\ \A n \in (DOMAIN tree.entries) \ {MARKER} :
           /\ decode(n).tag = "Child"
           /\ ValidComponent(decode(n).child)
           /\ tree.entries[n].filemode \in
                  {FileModeTree, FileModeLink, FileModeBlob, FileModeBlobExecutable}
           /\ (tree.entries[n].filemode = FileModeTree)
                  <=> (tree.entries[n].id.kind = "tree")

\* C9: a traversal succeeds only if every tree it goes down into has the
\* marker (name "0", mode 0o100644, the empty blob) as its first entry, every
\* other name decodes to a child with a valid component, and every mode is
\* tree, link, blob or blob-exec fitting its object; a tree without the
\* marker, one with no entries included, makes the traversal fail.
C9_TraverseOnlyWellFormed ==
    (walk.callbacks \in CallbackSets /\ walk.out.st = "ok")
        => \A t \in Descended(root) : BulkTreeWellFormed(t)

\* the ids at the file-mode entries, other than markers, of tree and below
RECURSIVE FileShadows(_)
FileShadows(tree) ==
    UNION {IF n = MARKER THEN {}
           ELSE IF tree.entries[n].filemode \in {FileModeBlob, FileModeBlobExecutable}
           THEN {tree.entries[n].id}
           ELSE IF tree.entries[n].filemode = FileModeTree
                   /\ tree.entries[n].id.kind = "tree"
           THEN FileShadows(tree.entries[n].id)
           ELSE {} : n \in DOMAIN tree.entries}

\* C10: a unique_blobs walk that succeeds called the closure exactly once
\* for each distinct file-shadow at a file-mode entry of the tree, and each
\* call was for a file-mode entry, never a marker or a link - also when a
\* link's target bytes are those of a file-shadow.
C10_UniqueBlobsOncePerShadow ==
    (walk.callbacks = UniqueBlobsCallbacks /\ walk.out.st = "ok") =>
        LET calls == walk.out.calls
        IN  /\ \A id \in FileShadows(root) :
                   Cardinality({i \in DOMAIN calls : calls[i].oid = id}) = 1
            /\ \A i \in DOMAIN calls :
                   LET r == Resolve(root, calls[i].path)
                   IN  /\ r.found
                       /\ r.filemode \in {FileModeBlob, FileModeBlobExecutable}
                       /\ r.id = calls[i].oid

\* C26: plant_snapshot returns Ok only if the first entry has the empty path
\* and is a tree and every entry was consumed, and the mode returned is then
\* the tree mode; for every other sequence it returns an error and does not
\* abort.
C26_PlantAcceptsOnlyRootedTrees ==
    planted.st # "none" =>
        IF planted.st = "ok"
        THEN /\ snapshot # <<>>
             /\ Head(snapshot).path = <<>>
             /\ Head(snapshot).value.ty = "Tree"
             /\ planted.rest = <<>>
             /\ planted.mode = FileModeTree
        ELSE planted.st = "err"

\* trees that pass the check walk, given to append and remove: the empty
\* bulk tree, a planted tree, the empty tree of git, and a bulk tree with a
\* directory that is the empty tree of git
EditTrees ==
    {EmptyBulkTree, SeedTree, EmptyNativeTree,
     builder_write(builder_insert(MarkerOnly, encode_child(CompA),
                                  EmptyNativeTree, FileModeTree))}

\* the marker is the first entry of the tree, with mode 0o100644 and the
\* empty blob
MarkerFirst(tree) ==
    /\ HasMarker(tree)
    /\ Head(tree_iter(tree)) = MARKER

\* the last call was an append or a remove that returned a tree, for a tree
\* that passes the check walk
EditedValidTree ==
    /\ last.op \in {"append", "remove"}
    /\ last.out.st = "ok"
    /\ check(last.tree).st = "ok"

\* C29: append and remove keep bulk trees valid: when T passes the check
\* walk and the object appended is a planted one, the tree a successful
\* append(T, p, m, o, r) or remove(T, p) returns passes the check walk, and
\* every directory along p in it - those append created included - has the
\* marker as its first entry, with mode 0o100644 and the empty blob.
C29_EditsKeepBulkTreesValid ==
    EditedValidTree =>
        /\ check(last.out.tree).st = "ok"
        /\ MarkerFirst(last.out.tree)
        /\ \A q \in QueryPaths :
               IsStrictPrefix(q, last.path) =>
                   /\ Resolve(last.out.tree, q).filemode = FileModeTree
                   /\ MarkerFirst(Resolve(last.out.tree, q).id)

----------------------------------------------------------------------------
(* store_snapshot (database/snapshot.rs) over the blob store *)

\* the blob store's directory as one store call finds and leaves it
FileSystem(fs_files, fs_dirs) == [files |-> fs_files, dirs |-> fs_dirs]

\* what a path of the subject holds when no regular file is there
NoFile == <<-1>>

\* FilesystemRealBlobStorage::store, run from call to return with no other
\* caller in between; src is the content of the source file, or NoFile
store_alone(fs, blob, src) ==
    LET made == fs.dirs \cup {partial_parent(blob)}
        staged == [q \in (DOMAIN fs.files) \cup {partial_path(blob)} |->
                      IF q = partial_path(blob) THEN src ELSE fs.files[q]]
        linked == [q \in ((DOMAIN fs.files) \cup {blob_path(blob)}) |->
                      IF q = blob_path(blob) THEN src ELSE fs.files[q]]
    IN  IF blob_path(blob) \in DOMAIN fs.files           \* have_blob
        THEN [st |-> "ok", fs |-> fs]
        ELSE IF src = NoFile                             \* assert!(src.is_file())
        THEN [st |-> "panic", fs |-> fs]
        ELSE IF partial_path(blob) \in DOMAIN fs.files   \* create_new
        THEN [st |-> "err", fs |-> FileSystem(fs.files, made)]
        ELSE IF ~check_sha256sum(blob, src)
        THEN [st |-> "panic", fs |-> FileSystem(staged, made)]
        ELSE [st |-> "ok", fs |-> FileSystem(linked, made \cup {blob_parent(blob)})]

\* the closure store_snapshot hands to unique_blobs, over the calls the walk
\* makes: blob_store.store(blob, subject.join(path.join()))?
RECURSIVE store_calls(_, _, _)
store_calls(fs, dir, calls) ==
    IF calls = <<>> THEN [st |-> "ok", fs |-> fs]
    ELSE LET src == IF Head(calls).path \in DOMAIN dir
                    THEN dir[Head(calls).path] ELSE NoFile
             r == store_alone(fs, Head(calls).blob.content_hash, src)
         IN  IF r.st # "ok" THEN r ELSE store_calls(r.fs, dir, Tail(calls))

\* Database::store_snapshot: the stores end at the first that fails, the
\* walk's own failure comes after the stores it made
store_snapshot(fs, tree, dir) ==
    LET w == unique_blobs(tree)
        r == store_calls(fs, dir, w.calls)
    IN  [st |-> IF r.st # "ok" THEN r.st ELSE w.st,
         store_failed |-> r.st # "ok",
         fs |-> r.fs]

NotStored == [st |-> "none", store_failed |-> FALSE]

\* shadow records of the two source files, and their blobs
ShadowShort == BlobShadow(Sha256(SrcShort), Len(SrcShort))
ShadowLong == BlobShadow(Sha256(SrcLong), Len(SrcLong))
FileShort == Blob(to_bytes(ShadowShort))
FileLong == Blob(to_bytes(ShadowLong))

\* a planted directory with one file
SubDir == Tree((MARKER :> TreeEntry(FileModeBlob, empty_blob_oid))
               @@ (encode_child(CompA) :> TreeEntry(FileModeBlob, FileLong)))

\* the entries of a planted snapshot: files, a directory, a symlink, and a
\* symlink whose target text is that of a shadow record
SnapEntries ==
    {TreeEntry(FileModeBlob, FileShort),
     TreeEntry(FileModeBlobExecutable, FileLong),
     TreeEntry(FileModeLink, LinkT),
     TreeEntry(FileModeLink, FileShort),
     TreeEntry(FileModeTree, SubDir)}

SnapTrees ==
    {Tree((MARKER :> TreeEntry(FileModeBlob, empty_blob_oid)) @@ c) :
        c \in UNION {[names -> SnapEntries] :
                        names \in SUBSET {encode_child(CompA), encode_child(CompB)}}}

\* the subject when the stores run: each file is as it was when the snapshot
\* was taken, has other content by now, or is gone
SubjectPaths == {<<CompA>>, <<CompB>>, <<CompA, CompA>>}
Subjects == UNION {[ps -> Sources] : ps \in SUBSET SubjectPaths}

\* blob stores store_snapshot may find: empty, or with the staging file an
\* interrupted store of the short file left behind
StagedShort == (partial_path(Sha256(SrcShort)) :> SrcShort)

\* `bkp store-snapshot` / the store step of `bkp snapshot`
StoreSnapshot ==
    /\ root # NoRoot
    /\ \E r \in {store_snapshot(FileSystem(files, dirs), root, subject)} :
           /\ stored' = [st |-> r.st, store_failed |-> r.store_failed]
           /\ files' = r.fs.files
           /\ dirs' = r.fs.dirs
    /\ UNCHANGED <<root, walk, subject, store, nstores, treeVars, plantVars, diffVars, codecVars, mountVars, cliVars>>

SnapNext == StoreSnapshot

----------------------------------------------------------------------------
(* Properties of store_snapshot *)

\* C11: if store_snapshot(T, subject) returns success, then have(h) holds in
\* the blob store for the content hash h of every file-shadow reachable in T;
\* and if the store of any shadow fails, store_snapshot fails.
C11_StoreSnapshotStoresEveryShadow ==
    /\ stored.st = "ok" =>
           \A id \in FileShadows(root) : have_blob(read_blob(id).content_hash)
    /\ stored.store_failed => stored.st # "ok"

----------------------------------------------------------------------------
(* shallow_diff (shallow_diff.rs, database/diff.rs) *)

\* TreeEntry::name_bytes
name_bytes(name) == [i \in 1..Len(name) |-> CharCode(name[i])]

\* Ord::cmp of two byte slices
cmp(b1, b2) ==
    IF b1 = b2 THEN "Equal" ELSE IF LexLess(b1, b2) THEN "Less" ELSE "Greater"

\* `<` of two tree entries (git_tree_entry_cmp): the order trees are stored in
entry_lt(tree1, name1, tree2, name2) ==
    LexLess(OrderKey(tree1, name1), OrderKey(tree2, name2))

\* ShallowDifference::new
ShallowDifference(parent, side, tree, name) ==
    [parent |-> parent, side |-> side, mode |-> tree.entries[name].filemode,
     oid |-> tree.entries[name].id, name |-> name]

\* a run of the differ: Result so far and what the callback was called with
NoDiff == [st |-> "none", out |-> <<>>]
NewDiff == [st |-> "ok", out |-> <<>>]

\* Differ::report (the callback returns Ok)
report(d, path, side, tree, name) ==
    [d EXCEPT !.out = Append(@, ShallowDifference(path, side, tree, name))]

\* Differ::exhaust: the current entry and all that remain on that side
RECURSIVE exhaust(_, _, _, _, _)
exhaust(d, path, side, tree, names) ==
    IF names = <<>> THEN d
    ELSE exhaust(report(d, path, side, tree, Head(names)), path, side, tree, Tail(names))

\* Differ::report_until: how many entries of names it reports, the current
\* one and those after it that sort before the target entry
RECURSIVE until(_, _, _, _)
until(tree, names, target_tree, target_name) ==
    IF names = <<>> THEN 0
    ELSE IF entry_lt(tree, Head(names), target_tree, target_name)
    THEN 1 + until(tree, Tail(names), target_tree, target_name)
    ELSE 0

report_until(d, path, target_tree, target_name, side, tree, names) ==
    LET n == 1 + until(tree, Tail(names), target_tree, target_name)
    IN  [d |-> exhaust(d, path, side, tree, SubSeq(names, 1, n)),
         rest |-> SubSeq(names, n + 1, Len(names))]

RECURSIVE diff_inner(_, _, _, _)
RECURSIVE diff_loop(_, _, _, _, _, _)

\* the loop of diff_inner; names_a and names_b are the current entry of each
\* side followed by what its iterator still holds
diff_loop(d, path, a, b, names_a, names_b) ==
    IF d.st # "ok" THEN d
    ELSE IF names_a = <<>> /\ names_b = <<>> THEN d
    ELSE IF names_b = <<>> THEN exhaust(d, path, "A", a, names_a)
    ELSE IF names_a = <<>> THEN exhaust(d, path, "B", b, names_b)
    ELSE
      LET entry_a == Head(names_a)
          entry_b == Head(names_b)
          order == cmp(name_bytes(entry_a), name_bytes(entry_b))
          mode_a == a.entries[entry_a].filemode
          mode_b == b.entries[entry_b].filemode
          id_a == a.entries[entry_a].id
          id_b == b.entries[entry_b].id
      IN  IF order = "Less"
          THEN LET r == report_until(d, path, b, entry_b, "A", a, names_a)
               IN  diff_loop(r.d, path, a, b, r.rest, names_b)
          ELSE IF order = "Greater"
          THEN LET r == report_until(d, path, a, entry_a, "B", b, names_b)
               IN  diff_loop(r.d, path, a, b, names_a, r.rest)
          ELSE
            LET d1 == IF mode_a # mode_b
                      THEN report(report(d, path, "A", a, entry_a), path, "B", b, entry_b)
                      ELSE IF id_a # id_b
                      THEN IF mode_a = FileModeTree
                           THEN diff_inner(d, Append(path, entry_a), id_a, id_b)
                           ELSE report(report(d, path, "A", a, entry_a),
                                       path, "B", b, entry_b)
                      ELSE d
            IN  diff_loop(d1, path, a, b, Tail(names_a), Tail(names_b))

\* Differ::diff_inner, self.path being path
diff_inner(d, path, a, b) ==
    IF a.kind # "tree" \/ b.kind # "tree" THEN [d EXCEPT !.st = "err"]   \* find_tree
    ELSE diff_loop(d, path, a, b, tree_iter(a), tree_iter(b))

\* shallow_diff
shallow_diff(a, b) == diff_inner(NewDiff, <<>>, a, b)

\* subdirectories that differ from one another
DiffDirX == Tree((MARKER :> TreeEntry(FileModeBlob, empty_blob_oid))
                 @@ (encode_child(CompA) :> TreeEntry(FileModeBlob, FileX)))
DiffDirY == Tree((MARKER :> TreeEntry(FileModeBlob, empty_blob_oid))
                 @@ (encode_child(CompA) :> TreeEntry(FileModeBlob, FileY))
                 @@ (encode_child(CompB) :> TreeEntry(FileModeLink, LinkT)))

\* children "a", "a.b" and "b"
CompADotB == <<"a", ".", "b">>
DiffNames == {encode_child(CompA), encode_child(CompADotB), encode_child(CompB)}

DiffEntries ==
    {TreeEntry(FileModeBlob, FileX),
     TreeEntry(FileModeBlob, FileY),
     TreeEntry(FileModeBlobExecutable, FileX),
     TreeEntry(FileModeTree, DiffDirX),
     TreeEntry(FileModeTree, DiffDirY)}

DiffTrees ==
    {Tree((MARKER :> TreeEntry(FileModeBlob, empty_blob_oid)) @@ c) :
        c \in UNION {[names -> DiffEntries] : names \in SUBSET DiffNames}}

\* `bkp diff TREE_A TREE_B`
ShallowDiff ==
    /\ diffs = NoDiff
    /\ diffs' = shallow_diff(tree_a, tree_b)
    /\ UNCHANGED <<tree_a, tree_b, treeVars, storeVars, plantVars, walkVars, snapVars, codecVars, mountVars, cliVars>>

DiffNext == ShallowDiff

----------------------------------------------------------------------------
(* Properties of shallow_diff *)

\* the names two trees both hold as tree-mode entries with different ids
BothTrees(a, b) ==
    {n \in (DOMAIN a.entries) \cap (DOMAIN b.entries) :
        /\ a.entries[n].filemode = FileModeTree
        /\ b.entries[n].filemode = FileModeTree
        /\ a.entries[n].id # b.entries[n].id}

\* the differences of one directory level, as the documentation states them
LevelDifferences(path, a, b) ==
    {ShallowDifference(path, "A", a, n) :
        n \in {m \in DOMAIN a.entries :
                  \/ m \notin DOMAIN b.entries
                  \/ a.entries[m].filemode # b.entries[m].filemode
                  \/ /\ a.entries[m].id # b.entries[m].id
                     /\ a.entries[m].filemode # FileModeTree}}
    \cup
    {ShallowDifference(path, "B", b, n) :
        n \in {m \in DOMAIN b.entries :
                  \/ m \notin DOMAIN a.entries
                  \/ a.entries[m].filemode # b.entries[m].filemode
                  \/ /\ a.entries[m].id # b.entries[m].id
                     /\ b.entries[m].filemode # FileModeTree}}

\* the differences of all levels: those of this level and those of the
\* subtrees that are tree-mode on both sides with different ids
RECURSIVE AllDifferences(_, _, _)
AllDifferences(path, a, b) ==
    LevelDifferences(path, a, b)
    \cup UNION {AllDifferences(Append(path, n), a.entries[n].id, b.entries[n].id) :
                   n \in BothTrees(a, b)}

\* C12: shallow_diff(A, B) emits at each directory level exactly one
\* difference for each name present on one side only, two differences (A's
\* entry, then B's) for each name present on both whose modes differ or whose
\* ids differ while the shared mode is not tree, and none for a name present
\* on both sides with equal mode and id.
C12_DiffEmitsExactlyTheDifferences ==
    diffs.st = "ok" =>
        LET expected == AllDifferences(<<>>, tree_a, tree_b)
        IN  /\ {diffs.out[i] : i \in DOMAIN diffs.out} = expected
            /\ Len(diffs.out) = Cardinality(expected)
            /\ \A i \in DOMAIN diffs.out :
                   LET e == diffs.out[i]
                   IN  (/\ e.side = "A"
                        /\ \E y \in expected :
                               y.side = "B" /\ y.parent = e.parent /\ y.name = e.name)
                           => /\ i < Len(diffs.out)
                              /\ diffs.out[i + 1].side = "B"
                              /\ diffs.out[i + 1].parent = e.parent
                              /\ diffs.out[i + 1].name = e.name

\* C13: for a name that is a tree-mode entry on both sides with different
\* ids, shallow_diff emits no difference for the name itself, reports the
\* differences of the two subtrees with the parent path extended by the raw
\* name, and reports the differences of the later siblings, after those,
\* with the enclosing parent path again.
C13_SubtreesAreDescended ==
    diffs.st = "ok" =>
        \A n \in BothTrees(tree_a, tree_b) :
            /\ \A i \in DOMAIN diffs.out :
                   ~(diffs.out[i].parent = <<>> /\ diffs.out[i].name = n)
            /\ {diffs.out[i] : i \in {j \in DOMAIN diffs.out :
                                         IsPrefix(<<n>>, diffs.out[j].parent)}}
                   = AllDifferences(<<n>>, tree_a.entries[n].id, tree_b.entries[n].id)
            /\ \A y \in LevelDifferences(<<>>, tree_a, tree_b) :
                   LexLess(name_bytes(n), name_bytes(y.name)) =>
                       \E j \in DOMAIN diffs.out :
                           /\ diffs.out[j] = y
                           /\ \A i \in DOMAIN diffs.out :
                                  IsPrefix(<<n>>, diffs.out[i].parent) => i < j

----------------------------------------------------------------------------
(* The codecs taken alone: entry names (entry.rs, paths.rs) and shadow      *)
(* records (blob.rs, shadow.rs)                                             *)

\* FromStr for ShadowTreeEntryName (ShadowTreeEntryName::decode): the marker,
\* or the child prefix followed by what parses as a ShadowPathComponent
ShadowTreeEntryName_decode(s) ==
    IF s = MARKER THEN [tag |-> "Marker", child |-> <<>>]
    ELSE IF HasPrefix(s, CHILD_PREFIX)
    THEN LET child == SubSeq(s, Len(CHILD_PREFIX) + 1, Len(s))
         IN  IF ValidComponent(child) THEN [tag |-> "Child", child |-> child]
             ELSE [tag |-> "Err", child |-> <<>>]
    ELSE [tag |-> "Err", child |-> <<>>]

NoArg == [op |-> "none"]
NoOut == [op |-> "none"]

\* the strings the decoders are given
NameChars == {"0", "_", "a", ".", "/", "x", NUL}
EntryNameInputs == UNION {[1..n -> NameChars] : n \in 0..MaxNameLen}

\* the shadows the round trip is made with: every size of the width, hashes
\* of bytes with decimal and letter hex digits
RoundTripHashes == [1..DigestBytes -> {9, 175}]
ShadowInputs == {BlobShadow(h, s) : h \in RoundTripHashes, s \in 0..U64Max}

\* an entry name is decoded, by the decoder of the traverser (entry.rs) and by
\* that of the mount (paths.rs)
DecodeName ==
    /\ codec_arg.op = "decode"
    /\ codec_out = NoOut
    /\ codec_out' = [op |-> "decode",
                     bulk |-> decode(codec_arg.name),
                     shadow |-> ShadowTreeEntryName_decode(codec_arg.name)]
    /\ UNCHANGED <<codec_arg, treeVars, storeVars, plantVars, walkVars, snapVars, diffVars, mountVars, cliVars>>

\* a shadow is written and read back, as BlobShadow (blob.rs) and as Shadow
\* (shadow.rs)
RoundTrip ==
    /\ codec_arg.op = "from_bytes"
    /\ codec_out = NoOut
    /\ codec_out' = [op |-> "from_bytes",
                     blob |-> from_bytes(to_bytes(codec_arg.shadow)),
                     shadow |-> Shadow_from_bytes(Shadow_to_bytes(codec_arg.shadow))]
    /\ UNCHANGED <<codec_arg, treeVars, storeVars, plantVars, walkVars, snapVars, diffVars, mountVars, cliVars>>

\* carriage return
CR == "\r"

\* characters of the number in a size line
MaxSizeDigits == 3

\* texts that are, or are close to, the text of a shadow record: the hash in
\* lower-case hex, with an upper-case digit, with a letter that is no hex
\* digit, or a digit short or long; LF or CR LF after it; then nothing, or a
\* size line whose number may have a sign or leading zeros, ended by LF, by
\* nothing, by CR LF, or followed by more bytes
HashTexts ==
    UNION {{to_hex(h),
            [to_hex(h) EXCEPT ![2 * DigestBytes] = "A"],
            [to_hex(h) EXCEPT ![2 * DigestBytes] = "g"],
            Tail(to_hex(h)),
            to_hex(h) \o <<"0">>} : h \in {Digest(9), Digest(175)}}
LineEnds == {<<LF>>, <<CR, LF>>}
SizeTexts == UNION {[1..n -> {"+", "0", "7"}] : n \in 0..MaxSizeDigits}
SizeEnds == {<<LF>>, <<>>, <<CR, LF>>, <<LF, LF>>, <<LF, "x">>}
ShadowTexts ==
    {Str_sha256 \o <<SP>> \o h \o e : h \in HashTexts, e \in LineEnds \cup {<<>>}}
        \cup {Str_sha256 \o <<SP>> \o h \o e \o Str_size \o <<SP>> \o n \o f :
                  h \in HashTexts, e \in LineEnds, n \in SizeTexts, f \in SizeEnds}

\* a text is read as a Shadow (shadow.rs), and what is read is written again
ParseShadow ==
    /\ codec_arg.op = "parse"
    /\ codec_out = NoOut
    /\ \E parsed \in {Shadow_from_bytes(codec_arg.text)} :
           codec_out' = [op |-> "parse",
                         shadow |-> parsed,
                         written |-> IF parsed = MalformedShadow THEN <<>>
                                     ELSE Shadow_to_bytes(parsed)]
    /\ UNCHANGED <<codec_arg, treeVars, storeVars, plantVars, walkVars, snapVars, diffVars, mountVars, cliVars>>

\* u16::MAX, the width of NodesEntry::mode
U16Max == 65535

\* str::parse::<u16>: an optional '+', then one or more decimal digits, the
\* value no more than u16::MAX; -1 is a parse error
parse_u16(s) ==
    LET digits == IF s # <<>> /\ Head(s) = "+" THEN Tail(s) ELSE s
    IN  IF digits = <<>> \/ \E i \in 1..Len(digits) : ~IsDecDigit(digits[i])
        THEN -1
        ELSE IF DigitsValue(digits) > U16Max THEN -1
        ELSE DigitsValue(digits)

\* the type letters of a node record: [dflcbsp]
NodeTypeChars == {"d", "f", "l", "c", "b", "s", "p"}

NoNode == [st |-> "err", ty |-> "", mode |-> 0]

\* NodesEntries::next on the record "<ty> <mode> <path>NUL<target>NUL" of a
\* plain path: the pattern wants a type letter and a mode of a 0 and one or
\* more decimal digits; the mode is then read by str::parse::<u16>
NodesEntries_next(ty, mode_text) ==
    IF \/ ty \notin NodeTypeChars
       \/ Len(mode_text) < 2
       \/ Head(mode_text) # "0"
       \/ \E i \in 1..Len(mode_text) : ~IsDecDigit(mode_text[i])
    THEN NoNode                              \* "regex does not match"
    ELSE IF parse_u16(mode_text) < 0 THEN NoNode
    ELSE [st |-> "ok", ty |-> ty, mode |-> parse_u16(mode_text)]

\* NodesEntry::is_executable: self.mode & 0o100 != 0
is_executable(node) == (node.mode \div 64) % 2 # 0

\* SnapshotEntries::next on one node record and, for a file, its digest
\* record: the value of the entry; "skip" for the types it passes over
SnapshotEntries_next(ty, mode_text, digest, target) ==
    LET node_line == NodesEntries_next(ty, mode_text)
    IN  IF node_line.st # "ok" THEN [st |-> "err", value |-> ValueTree]
        ELSE CASE node_line.ty = "d" -> [st |-> "ok", value |-> ValueTree]
               [] node_line.ty = "f" ->
                      [st |-> "ok", value |-> ValueFile(digest, is_executable(node_line))]
               [] node_line.ty = "l" -> [st |-> "ok", value |-> ValueLink(target)]
               [] OTHER -> [st |-> "skip", value |-> ValueTree]

\* octal digits after the leading 0 of a mode
MaxModeDigits == 3

OctChars == {"0", "1", "2", "3", "4", "5", "6", "7"}

\* the mode fields of the node records read: find's %m, a 0 and octal
\* digits; and fields with no leading 0, with a digit that is not octal,
\* and of the 0 alone
ModeTexts ==
    {<<"0">> \o t : t \in UNION {[1..n -> OctChars] : n \in 1..MaxModeDigits}}
        \cup {<<"7", "5", "5">>, <<"0", "9">>, <<"0">>}

NodeTypes == {"d", "f", "l", "c", "x"}

\* a node record is read from a snapshot
ReadNode ==
    /\ codec_arg.op = "node"
    /\ codec_out = NoOut
    /\ codec_out' = [op |-> "node",
                     entry |-> SnapshotEntries_next(codec_arg.ty, codec_arg.mode,
                                                    Digest(170), <<"t">>)]
    /\ UNCHANGED <<codec_arg, treeVars, storeVars, plantVars, walkVars, snapVars, diffVars, mountVars, cliVars>>

CodecNext == DecodeName \/ RoundTrip \/ ParseShadow \/ ReadNode

----------------------------------------------------------------------------
(* Properties of the codecs *)

\* C19: for every valid path component c, decoding the encoding of Child(c)
\* gives Child(c), decoding "0" gives Marker, and decoding fails for every
\* string that is neither "0" nor "0_" followed by a valid component - for
\* the decoder the traverser uses and for the one the mount uses.
C19_DecodeInvertsEncodeAndRejects ==
    codec_out.op = "decode" =>
        \A d \in {codec_out.bulk, codec_out.shadow} :
            LET s == codec_arg.name
                c == SubSeq(s, Len(CHILD_PREFIX) + 1, Len(s))
                encoded == ValidComponent(c) /\ s = encode_child(c)
            IN  /\ s = encode_marker => d = [tag |-> "Marker", child |-> <<>>]
                /\ encoded => d = [tag |-> "Child", child |-> c]
                /\ (s # encode_marker /\ ~encoded) => d.tag = "Err"

\* C20: for every shadow s = (content_hash, size) with a hash of the digest
\* length and a size of the u64 width, from_bytes(to_bytes(s)) succeeds and
\* equals s.
C20_ShadowRoundTrip ==
    codec_out.op = "from_bytes" =>
        /\ codec_out.blob = codec_arg.shadow
        /\ codec_out.shadow = codec_arg.shadow

\* the round trip was made with the largest size there is
C20_Witness ==
    /\ codec_out.op = "from_bytes"
    /\ codec_arg.shadow.size = U64Max
    /\ codec_out.blob.size = U64Max

\* C21: shadow parsing accepts only the canonical text: every text that
\* from_bytes accepts is the text to_bytes writes for what was read, and it
\* has the size line; so a record without the size line, a size with a sign
\* or superfluous leading zeros, upper-case hex digits, CR line ends, a
\* missing final newline and trailing bytes are all rejected.
C21_ParseAcceptsOnlyCanonical ==
    (codec_out.op = "parse" /\ codec_out.shadow # MalformedShadow) =>
        /\ codec_out.written = codec_arg.text
        /\ codec_out.shadow.size # NoSize

OctVal(c) == DecVal(c)

\* the number an octal numeral denotes
RECURSIVE OctalValue(_)
OctalValue(ds) ==
    IF ds = <<>> THEN 0
    ELSE 8 * OctalValue(SubSeq(ds, 1, Len(ds) - 1)) + OctVal(ds[Len(ds)])

\* a 0 followed by octal digits
IsOctalMode(mode_text) ==
    /\ Len(mode_text) >= 2
    /\ Head(mode_text) = "0"
    /\ \A i \in 1..Len(mode_text) : mode_text[i] \in OctChars

\* C27: for every node record of type f whose mode is written as a 0
\* followed by octal digits, the reader gives a File entry whose executable
\* flag is set exactly when the owner-execute bit 0o100 of that octal mode is
\* set.
C27_ExecutableIsOwnerExecuteBit ==
    (codec_out.op = "node" /\ codec_arg.ty = "f" /\ IsOctalMode(codec_arg.mode)) =>
        /\ codec_out.entry.st = "ok"
        /\ codec_out.entry.value.ty = "File"
        /\ codec_out.entry.value.executable
               <=> ((OctalValue(codec_arg.mode) \div 64) % 2 = 1)

----------------------------------------------------------------------------
(* The mount (database/fs.rs; getattr of fs/fs.rs) *)

ROOT_INODE == 1

\* inode numbers handed out before the calls stop
MaxInodes == 4

\* open calls that succeed in one run
MaxOpens == 3

\* entries the largest reply buffer of readdir takes
MaxCapacity == 3

\* permission bits
Perm444 == 292    \* 0o444
Perm111 == 73     \* 0o111
Perm555 == 365    \* 0o555

\* the operator | on unsigned integers
RECURSIVE BitOr(_, _)
BitOr(a, b) ==
    IF a = 0 THEN b
    ELSE IF b = 0 THEN a
    ELSE 2 * BitOr(a \div 2, b \div 2) + (IF a % 2 = 1 \/ b % 2 = 1 THEN 1 ELSE 0)

\* enum InodeEntry
InodeFile(oid, executable) ==
    [kind |-> "File", oid |-> oid, executable |-> executable, parent |-> 0]
InodeLink(oid) ==
    [kind |-> "Link", oid |-> oid, executable |-> FALSE, parent |-> 0]
InodeTree(oid, parent) ==
    [kind |-> "Tree", oid |-> oid, executable |-> FALSE, parent |-> parent]
NoInode == [kind |-> "none", oid |-> empty_blob_oid, executable |-> FALSE, parent |-> 0]

\* BTreeMap::insert
Put(map, key, value) ==
    [k \in (DOMAIN map) \cup {key} |-> IF k = key THEN value ELSE map[k]]

\* the tables of a DatabaseFilesystem; origin notes, for each inode number
\* handed out, the directory inode, entry index and entry mode it was for
Tables(i, f, n, o) == [inodes |-> i, family_tree |-> f, next_inode |-> n, origin |-> o]

\* DatabaseFilesystem::new
new(tree) == Tables((ROOT_INODE :> InodeTree(tree, ROOT_INODE)), <<>>, ROOT_INODE + 1, <<>>)

\* DatabaseFilesystem::get_inode: the number is taken before the entry is
\* looked at
get_inode(m, parent, entry) ==
    LET ino == m.next_inode
        m1 == [m EXCEPT !.next_inode = @ + 1]
        oid == entry.id
        mode == entry.filemode
        made == CASE entry_kind(mode) = "blob" ->
                         IF mode = FileModeLink THEN InodeLink(oid)
                         ELSE IF mode = FileModeBlob THEN InodeFile(oid, TRUE)
                         ELSE IF mode = FileModeBlobExecutable THEN InodeFile(oid, FALSE)
                         ELSE NoInode
                  [] entry_kind(mode) = "tree" ->
                         IF mode = FileModeTree THEN InodeTree(oid, parent) ELSE NoInode
                  [] OTHER -> NoInode
    IN  IF made = NoInode THEN [ok |-> FALSE, ino |-> 0, m |-> m1]
        ELSE [ok |-> TRUE, ino |-> ino, m |-> [m1 EXCEPT !.inodes = Put(@, ino, made)]]

\* the slot and the mode an inode number was handed out for
Noted(m, ino, dir, index, mode) ==
    [m EXCEPT !.origin = Put(@, ino, [dir |-> dir, index |-> index, mode |-> mode])]

NoAttr == [ino |-> 0, size |-> 0, kind |-> "none", perm |-> 0]

\* DatabaseFilesystem::fetch_attr (database/fs.rs)
fetch_attr(m, ino) ==
    LET e == m.inodes[ino]
        blob == Shadow_from_bytes(e.oid.data)
    IN  CASE e.kind = "File" ->
                 IF e.oid.kind # "blob" \/ blob = MalformedShadow
                 THEN [ok |-> FALSE, attr |-> NoAttr]
                 ELSE [ok |-> TRUE,
                       attr |-> [ino |-> ino,
                                 size |-> IF blob.size = NoSize THEN 0 ELSE blob.size,
                                 kind |-> "RegularFile",
                                 perm |-> BitOr(Perm444, IF e.executable THEN 0 ELSE Perm111)]]
          [] e.kind = "Link" ->
                 IF e.oid.kind # "blob" THEN [ok |-> FALSE, attr |-> NoAttr]
                 ELSE [ok |-> TRUE,
                       attr |-> [ino |-> ino, size |-> Len(e.oid.data),
                                 kind |-> "Symlink", perm |-> Perm555]]
          [] OTHER ->
                 [ok |-> TRUE,
                  attr |-> [ino |-> ino, size |-> 0, kind |-> "Directory", perm |-> Perm555]]

\* DatabaseFilesystem::fetch_attr (fs/fs.rs): the size is that of the file in
\* the blob store
fs_fetch_attr(m, ino) ==
    LET e == m.inodes[ino]
        blob == from_shadow_file_content(e.oid.data)
    IN  CASE e.kind = "File" ->
                 IF \/ e.oid.kind # "blob"
                    \/ blob = MalformedBlobShadow
                    \/ ~is_file(blob_path(blob.content_hash))
                 THEN [ok |-> FALSE, attr |-> NoAttr]
                 ELSE [ok |-> TRUE,
                       attr |-> [ino |-> ino,
                                 size |-> Len(files[blob_path(blob.content_hash)]),
                                 kind |-> "RegularFile",
                                 perm |-> BitOr(Perm555, IF e.executable THEN 0 ELSE Perm111)]]
          [] e.kind = "Link" ->
                 IF e.oid.kind # "blob" THEN [ok |-> FALSE, attr |-> NoAttr]
                 ELSE [ok |-> TRUE,
                       attr |-> [ino |-> ino, size |-> Len(e.oid.data),
                                 kind |-> "Symlink", perm |-> Perm555]]
          [] OTHER ->
                 [ok |-> TRUE,
                  attr |-> [ino |-> ino, size |-> 0, kind |-> "Directory", perm |-> Perm555]]

\* what a callback replied: the callback and its inode argument, the result,
\* the attributes of reply.entry / reply.attr, the entry index a lookup
\* found the name at, and the entries reply.add took
Reply(op, ino, st, attr, index, entries) ==
    [op |-> op, ino |-> ino, st |-> st, attr |-> attr, index |-> index,
     entries |-> entries, shared |-> FALSE, file |-> <<>>]

NoReply == Reply("none", 0, "ok", NoAttr, 0, <<>>)

\* position of a name in a sequence of names, 0 if it is not there
IndexOf(names, name) ==
    IF \E i \in 1..Len(names) : names[i] = name
    THEN CHOOSE i \in 1..Len(names) : names[i] = name
    ELSE 0

\* Filesystem::lookup
lookup(m, parent, name) ==
    LET dir == m.inodes[parent]
        tree == dir.oid
        entry_name == encode_child(name)
        at == IndexOf(tree_iter(tree), entry_name)
        i == at - 1
        cached == <<parent, i>> \in DOMAIN m.family_tree
        got == get_inode(m, parent, tree.entries[entry_name])
        ino == IF cached THEN m.family_tree[<<parent, i>>] ELSE got.ino
        m1 == IF cached THEN m
              ELSE IF ~got.ok THEN got.m
              ELSE Noted([got.m EXCEPT !.family_tree = Put(@, <<parent, i>>, got.ino)],
                         got.ino, parent, i, tree.entries[entry_name].filemode)
    IN  IF dir.kind # "Tree"
        THEN [m |-> m, reply |-> Reply("lookup", parent, "EINVAL", NoAttr, 0, <<>>)]
        ELSE IF at = 0
        THEN [m |-> m, reply |-> Reply("lookup", parent, "ENOENT", NoAttr, 0, <<>>)]
        ELSE IF ~cached /\ ~got.ok
        THEN [m |-> m1, reply |-> Reply("lookup", parent, "EINVAL", NoAttr, i, <<>>)]
        ELSE IF ~fetch_attr(m1, ino).ok
        THEN [m |-> m1, reply |-> Reply("lookup", parent, "EINVAL", NoAttr, i, <<>>)]
        ELSE [m |-> m1,
              reply |-> Reply("lookup", parent, "ok", fetch_attr(m1, ino).attr, i, <<>>)]

\* FileType of an inode entry
FileType(e) ==
    CASE e.kind = "File" -> "RegularFile"
      [] e.kind = "Link" -> "Symlink"
      [] OTHER -> "Directory"

\* what the closure of readdir yields: Ok(None), Ok(Some((ino, kind, name))),
\* Err, or a panic inside it
Mapped(res, m, ino, kind, name) ==
    [res |-> res, m |-> m, ino |-> ino, kind |-> kind, name |-> name]

\* the None arm of the closure's match on family_tree: the inode get_inode
\* made (`let ino = self.get_inode(ino, ..)?`) is cached under the key (that
\* inode, i)
readdir_made(got, ino, i, mode, name) ==
    IF ~got.ok THEN Mapped("Err", got.m, 0, "", <<>>)
    ELSE Mapped("Some",
                Noted([got.m EXCEPT !.family_tree = Put(@, <<got.ino, i>>, got.ino)],
                      got.ino, ino, i, mode),
                got.ino, FileType(got.m.inodes[got.ino]), name)

\* the closure for an entry whose name decoded to `name`
readdir_named(m, ino, i, entry, name) ==
    IF name.tag = "Err" THEN Mapped("panic", m, 0, "", <<>>)
    ELSE IF name.tag = "Marker" THEN Mapped("None", m, 0, "", <<>>)
    ELSE IF <<ino, i>> \in DOMAIN m.family_tree
    THEN Mapped("Some", m, m.family_tree[<<ino, i>>],
                FileType(m.inodes[m.family_tree[<<ino, i>>]]), name.child)
    ELSE readdir_made(get_inode(m, ino, entry), ino, i, entry.filemode, name.child)

\* the closure readdir maps the tree entries with, for the entry at index i:
\* Ok(None) for the marker, Ok(Some((ino, kind, name))) for a child, or Err
readdir_entry(m, ino, tree, names, i) ==
    readdir_named(m, ino, i, tree.entries[names[i + 1]],
                  ShadowTreeEntryName_decode(names[i + 1]))

\* the chain of ".", ".." and the mapped tree entries (names being
\* tree.iter()), at position p
chained(m, ino, parent, tree, names, p) ==
    IF p = 0
    THEN Mapped("Some", m, ino, "Directory", <<".">>)
    ELSE IF p = 1
    THEN Mapped("Some", m, parent, "Directory", <<".", ".">>)
    ELSE readdir_entry(m, ino, tree, names, p - 2)

\* as readdir_offset, but the offset is that of the entry itself
readdir_offset_OfEntry(i) == i

\* the offset reply.add is given with the entry at position i: "i + 1 means
\* the index of the next entry"
readdir_offset(i) == i + 1

RECURSIVE readdir_loop(_, _, _, _, _, _, _, _, _)

\* the body of the loop for the item at position p
readdir_item(item, ino, parent, tree, names, p, offset, capacity, added) ==
    IF item.res = "panic" THEN [st |-> "panic", m |-> item.m, added |-> added]
    ELSE IF p < offset
    THEN readdir_loop(item.m, ino, parent, tree, names, p + 1, offset, capacity, added)
    ELSE IF item.res = "Err" THEN [st |-> "panic", m |-> item.m, added |-> added]
    ELSE IF item.res = "None"
    THEN readdir_loop(item.m, ino, parent, tree, names, p + 1, offset, capacity, added)
    ELSE IF Len(added) >= capacity           \* reply.add: full
    THEN [st |-> "ok", m |-> item.m, added |-> added]
    ELSE readdir_loop(item.m, ino, parent, tree, names, p + 1, offset, capacity,
                      Append(added, [ino |-> item.ino,
                                     offset |-> readdir_offset(p),
                                     kind |-> item.kind,
                                     name |-> item.name]))

\* the loop of readdir over entries.enumerate().skip(offset): the positions
\* before offset are taken from the iterator and dropped, the others are
\* added until the buffer, which takes `capacity` entries, is full
readdir_loop(m, ino, parent, tree, names, p, offset, capacity, added) ==
    IF p >= 2 + Len(names) THEN [st |-> "ok", m |-> m, added |-> added]
    ELSE readdir_item(chained(m, ino, parent, tree, names, p),
                      ino, parent, tree, names, p, offset, capacity, added)

\* what readdir replies after the loop
readdir_reply(ino, r) ==
    [m |-> r.m, reply |-> Reply("readdir", ino, r.st, NoAttr, 0, r.added)]

\* Filesystem::readdir
readdir(m, ino, offset, capacity) ==
    IF m.inodes[ino].kind # "Tree"
    THEN [m |-> m, reply |-> Reply("readdir", ino, "EINVAL", NoAttr, 0, <<>>)]
    ELSE readdir_reply(ino,
             readdir_loop(m, ino, m.inodes[ino].parent, m.inodes[ino].oid,
                          tree_iter(m.inodes[ino].oid), 0, offset, capacity, <<>>))

\* as SharedFile::decrement, but a count of 0 still counts as in use
decrement_KeepsAtZero(shared) ==
    [shared |-> [shared EXCEPT !.reference_count = @ - 1],
     in_use |-> shared.reference_count - 1 >= 0]

\* SharedFile::decrement
decrement(shared) ==
    [shared |-> [shared EXCEPT !.reference_count = @ - 1],
     in_use |-> shared.reference_count - 1 > 0]

\* SharedFile::increment
increment(shared) == [shared EXCEPT !.reference_count = @ + 1]

\* how often a callback succeeded for an inode
Count(counts, ino) == IF ino \in DOMAIN counts THEN counts[ino] ELSE 0

RECURSIVE Total(_)
Total(counts) ==
    IF DOMAIN counts = {} THEN 0
    ELSE LET k == CHOOSE k \in DOMAIN counts : TRUE
         IN  counts[k] + Total([j \in (DOMAIN counts) \ {k} |-> counts[j]])

\* DatabaseFilesystem::open_blob: the handles after the call, or an error;
\* a new handle is the canonical file of the shadow's hash, opened for the
\* n-th time this inode is opened
open_blob(handles, m, ino, n) ==
    LET e == m.inodes[ino]
        blob == Shadow_from_bytes(e.oid.data)
    IN  IF ino \in DOMAIN handles
        THEN [ok |-> TRUE, handles |-> [handles EXCEPT ![ino] = increment(@)]]
        ELSE IF e.kind # "File" THEN [ok |-> FALSE, handles |-> handles]
        ELSE IF e.oid.kind # "blob" \/ blob = MalformedShadow
        THEN [ok |-> FALSE, handles |-> handles]
        ELSE IF ~is_file(blob_path(blob.content_hash))
        THEN [ok |-> FALSE, handles |-> handles]
        ELSE [ok |-> TRUE,
              handles |-> Put(handles, ino,
                              [file |-> <<blob_path(blob.content_hash), n>>,
                               reference_count |-> 1])]

\* DatabaseFilesystem::close_blob; unwrap panics where there is no handle
close_blob(handles, ino) ==
    IF ino \notin DOMAIN handles THEN [st |-> "panic", handles |-> handles]
    ELSE IF decrement(handles[ino]).in_use
    THEN [st |-> "ok", handles |-> [handles EXCEPT ![ino] = decrement(@).shared]]
    ELSE [st |-> "ok", handles |-> [k \in (DOMAIN handles) \ {ino} |-> handles[k]]]

\* a series of readdir calls on one directory: the offset to resume at, the
\* entries listed so far, the calls made, and whether the end was reached
NoListing == [ino |-> 0, next |-> 0, entries |-> <<>>, calls |-> 0, done |-> FALSE]

\* the series after a readdir(ino, offset) that replied with `added`: a call
\* at offset 0 starts one, a call at the offset of the last entry taken
\* continues it, a reply without entries ends it
Listed(ino, offset, st, added) ==
    LET next == IF added = <<>> THEN offset ELSE added[Len(added)].offset
    IN  IF st # "ok" THEN NoListing
        ELSE IF offset = 0
        THEN [ino |-> ino, next |-> next, entries |-> added, calls |-> 1,
              done |-> added = <<>>]
        ELSE IF listing.ino = ino /\ listing.next = offset /\ ~listing.done
        THEN [ino |-> ino, next |-> next, entries |-> listing.entries \o added,
              calls |-> listing.calls + 1, done |-> added = <<>>]
        ELSE NoListing

\* the mount is up: no callback has panicked
Up == reply.st # "panic"

TheTables == Tables(inodes, family_tree, next_inode, origin)

\* the kernel looks a name up in a directory it knows
Lookup(parent, name) ==
    /\ Up
    /\ next_inode <= MaxInodes
    /\ parent \in DOMAIN inodes
    /\ \E r \in {lookup(TheTables, parent, name)} :
           /\ inodes' = r.m.inodes
           /\ family_tree' = r.m.family_tree
           /\ next_inode' = r.m.next_inode
           /\ origin' = r.m.origin
           /\ reply' = r.reply
    /\ UNCHANGED <<file_handles, opens, releases, listing, treeVars, storeVars, plantVars, walkVars, snapVars, diffVars, codecVars, cliVars>>

\* the offsets the kernel passes to readdir: 0, or the offset returned with
\* the last entry it took
ResumeOffsets == {0, listing.next}

\* the kernel reads a directory from an offset, with room for some entries
Readdir(ino, offset, capacity) ==
    /\ Up
    /\ next_inode <= MaxInodes
    /\ ino \in DOMAIN inodes
    /\ offset \in ResumeOffsets
    /\ \E r \in {readdir(TheTables, ino, offset, capacity)} :
           /\ inodes' = r.m.inodes
           /\ family_tree' = r.m.family_tree
           /\ next_inode' = r.m.next_inode
           /\ origin' = r.m.origin
           /\ reply' = r.reply
           /\ listing' = Listed(ino, offset, r.reply.st, r.reply.entries)
    /\ UNCHANGED <<file_handles, opens, releases, treeVars, storeVars, plantVars, walkVars, snapVars, diffVars, codecVars, cliVars>>

\* Filesystem::getattr (database/fs.rs)
Getattr(ino) ==
    /\ Up
    /\ ino \in DOMAIN inodes
    /\ \E a \in {fetch_attr(TheTables, ino)} :
           reply' = Reply("getattr", ino, IF a.ok THEN "ok" ELSE "EINVAL", a.attr, 0, <<>>)
    /\ UNCHANGED <<inodes, family_tree, next_inode, file_handles, origin, opens, releases, listing, treeVars, storeVars, plantVars, walkVars, snapVars, diffVars, codecVars, cliVars>>

\* Filesystem::getattr (fs/fs.rs), its inode table being made by the same
\* get_inode
FsGetattr(ino) ==
    /\ Up
    /\ ino \in DOMAIN inodes
    /\ \E a \in {fs_fetch_attr(TheTables, ino)} :
           reply' = Reply("fs_getattr", ino, IF a.ok THEN "ok" ELSE "EINVAL", a.attr, 0, <<>>)
    /\ UNCHANGED <<inodes, family_tree, next_inode, file_handles, origin, opens, releases, listing, treeVars, storeVars, plantVars, walkVars, snapVars, diffVars, codecVars, cliVars>>

\* Filesystem::open
Open(ino) ==
    /\ Up
    /\ Total(opens) < MaxOpens
    /\ ino \in DOMAIN inodes
    /\ \E r \in {open_blob(file_handles, TheTables, ino, Count(opens, ino) + 1)} :
           /\ file_handles' = r.handles
           /\ opens' = IF r.ok THEN Put(opens, ino, Count(opens, ino) + 1) ELSE opens
           /\ reply' = [Reply("open", ino, IF r.ok THEN "ok" ELSE "EINVAL", NoAttr, 0, <<>>)
                           EXCEPT !.shared = ino \in DOMAIN file_handles,
                                  !.file = IF ino \in DOMAIN file_handles
                                           THEN file_handles[ino].file ELSE <<>>]
    /\ UNCHANGED <<inodes, family_tree, next_inode, origin, releases, listing, treeVars, storeVars, plantVars, walkVars, snapVars, diffVars, codecVars, cliVars>>

\* Filesystem::release; the kernel releases what it opened
Release(ino) ==
    /\ Up
    /\ Count(releases, ino) < Count(opens, ino)
    /\ \E r \in {close_blob(file_handles, ino)} :
           /\ file_handles' = r.handles
           /\ releases' = IF r.st = "ok" THEN Put(releases, ino, Count(releases, ino) + 1)
                          ELSE releases
           /\ reply' = Reply("release", ino, r.st, NoAttr, 0, <<>>)
    /\ UNCHANGED <<inodes, family_tree, next_inode, origin, opens, listing, treeVars, storeVars, plantVars, walkVars, snapVars, diffVars, codecVars, cliVars>>

\* a planted directory with one file
MountDir == Tree((MARKER :> TreeEntry(FileModeBlob, empty_blob_oid))
                 @@ (encode_child(CompA) :> TreeEntry(FileModeBlob, FileX)))

\* the trees mounted: an empty directory; one file; two files; a directory
\* and a link; a file a.b, stored before the directory a it stands beside
MountTrees ==
    {Tree((MARKER :> TreeEntry(FileModeBlob, empty_blob_oid)) @@ c) :
        c \in {<<>>,
               (encode_child(CompB) :> TreeEntry(FileModeBlobExecutable, FileX)),
               (encode_child(CompA) :> TreeEntry(FileModeBlob, FileX))
                   @@ (encode_child(CompB) :> TreeEntry(FileModeBlobExecutable, FileY)),
               (encode_child(CompA) :> TreeEntry(FileModeTree, MountDir))
                   @@ (encode_child(CompB) :> TreeEntry(FileModeLink, LinkT)),
               (encode_child(CompADotB) :> TreeEntry(FileModeBlobExecutable, FileX))
                   @@ (encode_child(CompA) :> TreeEntry(FileModeTree, MountDir))}}

\* the names the kernel looks up
LookupNames == {CompA, CompB, CompADotB, <<"x">>}

\* the blob store under the mount: the file X is there, the file Y is not
MountedBlobs == (blob_path(ShadowX.content_hash) :> SrcLong)

\* the inode numbers the kernel may have been given
InodeNumbers == 1..(MaxInodes + 2)

\* lookups and directory listings
MountNext ==
    \/ \E parent \in InodeNumbers, name \in LookupNames : Lookup(parent, name)
    \/ \E ino \in InodeNumbers, offset \in 0..5, capacity \in {1, 2, MaxCapacity} :
           Readdir(ino, offset, capacity)

\* lookups and requests for attributes
AttrNext ==
    \/ \E parent \in InodeNumbers, name \in LookupNames : Lookup(parent, name)
    \/ \E ino \in InodeNumbers : Getattr(ino)
    \/ \E ino \in InodeNumbers : FsGetattr(ino)

\* lookups, opens and releases
HandlesNext ==
    \/ \E parent \in InodeNumbers, name \in LookupNames : Lookup(parent, name)
    \/ \E ino \in InodeNumbers : Open(ino)
    \/ \E ino \in InodeNumbers : Release(ino)

----------------------------------------------------------------------------
(* Properties of the mount *)

\* C14: after any sequence of lookup and readdir callbacks, at most one inode
\* number has ever been handed out for each (directory inode, entry index)
\* slot, and every lookup or readdir that reaches that slot reports that same
\* inode number.
C14_OneInodePerSlot ==
    /\ \A i, j \in DOMAIN origin :
           (origin[i].dir = origin[j].dir /\ origin[i].index = origin[j].index) => i = j
    /\ (reply.op = "lookup" /\ reply.st = "ok") =>
           /\ reply.attr.ino \in DOMAIN origin
           /\ origin[reply.attr.ino].dir = reply.ino
           /\ origin[reply.attr.ino].index = reply.index
    /\ (reply.op = "readdir" /\ reply.st = "ok") =>
           \A k \in DOMAIN reply.entries :
               LET e == reply.entries[k]
               IN  e.offset > 2 =>
                       /\ e.ino \in DOMAIN origin
                       /\ origin[e.ino].dir = reply.ino
                       /\ origin[e.ino].index = e.offset - 3

\* C15: as long as no inode is released more often than it was successfully
\* opened, a file handle exists for a file inode exactly when its successful
\* opens exceed its releases, the handle's reference count is opens minus
\* releases and never 0, and an open of an inode that is already open
\* succeeds and shares the existing handle.
C15_HandlesCountOpens ==
    /\ \A ino \in DOMAIN inodes :
           /\ (ino \in DOMAIN file_handles) <=> (Count(opens, ino) > Count(releases, ino))
           /\ ino \in DOMAIN file_handles =>
                  /\ inodes[ino].kind = "File"
                  /\ file_handles[ino].reference_count
                         = Count(opens, ino) - Count(releases, ino)
                  /\ file_handles[ino].reference_count > 0
    /\ DOMAIN file_handles \subseteq DOMAIN inodes
    /\ (reply.op = "open" /\ reply.shared) =>
           /\ reply.st = "ok"
           /\ reply.ino \in DOMAIN file_handles
           /\ file_handles[reply.ino].file = reply.file

\* an inode opened, released down to no handle, opened again and then
\* opened once more while open
C15_Witness ==
    /\ reply.op = "open" /\ reply.shared /\ reply.st = "ok"
    /\ Count(releases, reply.ino) >= 1
    /\ file_handles[reply.ino].reference_count = 2

\* the parent directory's inode: the directory an inode was handed out in
ParentInode(ino) == IF ino = ROOT_INODE THEN ROOT_INODE ELSE origin[ino].dir

\* the names a directory is to list: ".", "..", and the component of each
\* entry other than the marker, in the order of the tree
RECURSIVE ChildComponents(_)
ChildComponents(names) ==
    IF names = <<>> THEN <<>>
    ELSE IF Head(names) = MARKER THEN ChildComponents(Tail(names))
    ELSE <<SubSeq(Head(names), Len(CHILD_PREFIX) + 1, Len(Head(names)))>>
             \o ChildComponents(Tail(names))

ExpectedNames(tree) == <<<<".">>, <<".", ".">>>> \o ChildComponents(tree_iter(tree))

\* C16: a series of readdir calls on a directory, from offset 0 and resumed
\* at the offset returned with the last entry taken, lists ".", then ".."
\* with the parent's inode (the root's parent being the root), then each
\* child of the tree once, under its decoded component, in tree order, and
\* never the marker - whatever the reply buffer takes per call.
C16_ReaddirSeriesLists ==
    /\ (/\ reply.op = "readdir"
        /\ reply.ino \in DOMAIN inodes
        /\ inodes[reply.ino].kind = "Tree") => reply.st = "ok"
    /\ listing.ino # 0 =>
           LET expected == ExpectedNames(inodes[listing.ino].oid)
               listed == [k \in DOMAIN listing.entries |-> listing.entries[k].name]
           IN  /\ IsPrefix(listed, expected)
               /\ listing.done => listed = expected
               /\ Len(listing.entries) >= 1 => listing.entries[1].ino = listing.ino
               /\ Len(listing.entries) >= 2 =>
                      listing.entries[2].ino = ParentInode(listing.ino)

\* a directory of one child listed to the end in four calls, the first
\* three taking one entry each
C16_Witness ==
    /\ listing.done
    /\ listing.calls = 4
    /\ Len(listing.entries) = 3
    /\ listing.entries[3].name = CompB

\* a subdirectory listed to the end, ".." being its parent
C16_WitnessSubdirectory ==
    /\ listing.done
    /\ listing.ino # ROOT_INODE
    /\ Len(listing.entries) = 3
    /\ listing.entries[2].ino = ROOT_INODE

\* C17: the attributes getattr and lookup return for a regular-file inode
\* have perm 0o555 when the tree entry the inode was made from has mode
\* 0o100755, and perm 0o444 when it has mode 0o100644.
C17_FilePermFollowsMode ==
    (/\ reply.op \in {"lookup", "getattr", "fs_getattr"}
     /\ reply.st = "ok"
     /\ reply.attr.kind = "RegularFile")
        => /\ origin[reply.attr.ino].mode = FileModeBlobExecutable
                  => reply.attr.perm = Perm555
           /\ origin[reply.attr.ino].mode = FileModeBlob
                  => reply.attr.perm = Perm444

----------------------------------------------------------------------------
(* `bkp snapshot` (cli/args.rs, cli/mod.rs) *)

\* commits on the branch
MaxCommits == 3

\* Command::Snapshot, as Args::match_ builds it: force is the presence of
\* --force on the command line
Command_Snapshot(dir, relative_path, force) ==
    [subject |-> dir, relative_path |-> relative_path, force |-> force]

\* Database::commit_simple: a commit of the tree on top of the parent
commit_simple(tree, parent) == [tree |-> tree, parent |-> parent]

\* Database::safe_merge: HEAD is fast-forwarded to the commit
safe_merge(history, commit) == history \o <<commit>>

NoCommand ==
    [op |-> "none", force |-> FALSE, relative_path |-> <<>>, st |-> "ok", err |-> "",
     step |-> "", mode |-> 0, tree |-> empty_blob_oid, before |-> <<>>]

\* how the command ended: the step it reached, the blob store and the
\* history it leaves, and the (mode, tree) that was planted
Ended(step, st, err, fs, history, p) ==
    [step |-> step, st |-> st, err |-> err, fs |-> fs, history |-> history,
     mode |-> p.mode, tree |-> p.oid]

\* commit_simple on the head, then safe_merge, if append returned a tree
run_snapshot_commit(history, fs, p, a) ==
    IF a.st # "ok" THEN Ended("append", a.st, a.err, fs, history, p)
    ELSE Ended("merge", "ok", "", fs,
               safe_merge(history, commit_simple(a.tree, Len(history))), p)

\* as run_snapshot_append, but a store that failed is passed over
run_snapshot_append_Unstored(history, command, p, s) ==
    run_snapshot_commit(history, s.fs, p,
        append(history[Len(history)].tree, command.relative_path,
               p.mode, p.oid, FALSE))

\* db.append(big_tree, &relative_path, mode, tree, false), if the store
\* succeeded
run_snapshot_append(history, command, p, s) ==
    IF s.st # "ok" THEN Ended("store", s.st, "", s.fs, history, p)
    ELSE run_snapshot_commit(history, s.fs, p,
             append(history[Len(history)].tree, command.relative_path,
                    p.mode, p.oid, FALSE))

\* db.store_snapshot(&blob_store, tree, &subject), if the planting succeeded
run_snapshot_store(history, fs, command, p) ==
    IF p.st # "ok" THEN Ended("plant", p.st, "", fs, history, p)
    ELSE run_snapshot_append(history, command, p,
                             store_snapshot(fs, p.oid, command.subject))

\* the Command::Snapshot arm of Args::run_command, over the entries
\* snapshot.take(subject) lists: plant, store, append to the tree of HEAD
\* with can_replace false, commit, fast-forward
run_snapshot(history, fs, command, entries) ==
    run_snapshot_store(history, fs, command, plant_snapshot(entries))

\* `bkp snapshot [--force] SUBJECT RELATIVE_PATH`
SnapshotCmd(dir, entries, relative_path, force) ==
    /\ Len(commits) < MaxCommits
    /\ \E r \in {run_snapshot(commits, FileSystem(files, dirs),
                              Command_Snapshot(dir, relative_path, force), entries)} :
           /\ commits' = r.history
           /\ files' = r.fs.files
           /\ dirs' = r.fs.dirs
           /\ cli' = [op |-> "snapshot", force |-> force, relative_path |-> relative_path,
                      st |-> r.st, err |-> r.err, step |-> r.step, mode |-> r.mode,
                      tree |-> r.tree, before |-> commits]
    /\ UNCHANGED <<store, nstores, treeVars, plantVars, walkVars, snapVars, diffVars, codecVars, mountVars>>

\* the steps of the command before the head is moved
StepsBeforeMerge == {"plant", "store", "append", "commit"}

\* the command when the process is killed after the step `at`: the blob store
\* is what the steps made left, the head is where it was
run_snapshot_killed(history, fs, command, p, at) ==
    IF at = "plant" \/ p.st # "ok"
    THEN Ended("plant", "killed", "", fs, history, p)
    ELSE Ended(at, "killed", "", store_snapshot(fs, p.oid, command.subject).fs, history, p)

\* `bkp snapshot SUBJECT RELATIVE_PATH`, killed before it moves the head
SnapshotKilled(dir, entries, relative_path, at) ==
    /\ Len(commits) < MaxCommits
    /\ cli.op # "killed"
    /\ \E r \in {run_snapshot_killed(commits, FileSystem(files, dirs),
                                     Command_Snapshot(dir, relative_path, FALSE),
                                     plant_snapshot(entries), at)} :
           /\ commits' = r.history
           /\ files' = r.fs.files
           /\ dirs' = r.fs.dirs
           /\ cli' = [op |-> "killed", force |-> FALSE, relative_path |-> relative_path,
                      st |-> r.st, err |-> r.err, step |-> r.step, mode |-> r.mode,
                      tree |-> r.tree, before |-> commits]
    /\ UNCHANGED <<store, nstores, treeVars, plantVars, walkVars, snapVars, diffVars, codecVars, mountVars>>

\* the subjects snapshots are taken of, with the entries their listing has:
\* an empty directory; a directory with a symlink; a directory with a
\* directory in it; a directory with a file; nothing at all (the listing is
\* empty)
CliSubjects ==
    {[files |-> <<>>, entries |-> <<SnapshotEntry(<<>>, ValueTree)>>],
     [files |-> (<<CompA>> :> SrcShort),
      entries |-> <<SnapshotEntry(<<>>, ValueTree),
                    SnapshotEntry(<<CompA>>, ValueFile(Sha256(SrcShort), FALSE))>>],
     [files |-> <<>>,
      entries |-> <<SnapshotEntry(<<>>, ValueTree),
                    SnapshotEntry(<<CompA>>, ValueLink(<<"t">>))>>],
     [files |-> <<>>,
      entries |-> <<SnapshotEntry(<<>>, ValueTree),
                    SnapshotEntry(<<CompB>>, ValueTree)>>],
     [files |-> <<>>, entries |-> <<>>]}

CliNext ==
    \/ \E s \in CliSubjects, relative_path \in OpPaths, force \in BOOLEAN :
           SnapshotCmd(s.files, s.entries, relative_path, force)
    \/ \E s \in CliSubjects, relative_path \in OpPaths, at \in StepsBeforeMerge :
           SnapshotKilled(s.files, s.entries, relative_path, at)

----------------------------------------------------------------------------
(* Properties of `bkp snapshot` *)

\* the last snapshot came to its append, on a head tree that had an entry at
\* relative_path
SnapshotOntoEntry ==
    /\ cli.op = "snapshot"
    /\ cli.step \in {"append", "merge"}
    /\ Resolves(cli.before[Len(cli.before)].tree, cli.relative_path)

\* C18: the snapshot operation passes the user's force flag to append: when
\* the head tree already has an entry at relative_path, snapshot with force
\* succeeds and the new head tree has the planted tree at relative_path, and
\* snapshot without force fails with WouldReplace and leaves the head commit
\* unchanged.
C18_SnapshotHandsForceToAppend ==
    SnapshotOntoEntry =>
        /\ cli.force =>
               /\ cli.st = "ok"
               /\ Len(commits) = Len(cli.before) + 1
               /\ Resolve(commits[Len(commits)].tree, cli.relative_path)
                      = [found |-> TRUE, filemode |-> cli.mode, id |-> cli.tree]
        /\ ~cli.force =>
               /\ cli.st = "err"
               /\ cli.err = "WouldReplace"
               /\ commits = cli.before

\* the blob is one the planter or a shadow record writes for the hash h
NamesHash(oid, h) ==
    /\ oid.kind = "blob"
    /\ \/ oid.data = to_hex(h) \o <<LF>>
       \/ /\ read_blob(oid) # MalformedBlobShadow
          /\ read_blob(oid).content_hash = h

\* every file entry of the tree names a hash whose payload is in the blob
\* store
PayloadsPresent(tree) ==
    \A q \in QueryPaths :
        (Resolves(tree, q)
           /\ Resolve(tree, q).filemode \in {FileModeBlob, FileModeBlobExecutable})
            => \A h \in Hashes :
                   NamesHash(Resolve(tree, q).id, h) => blob_path(h) \in DOMAIN files

C30_WitnessKilled ==
    /\ cli.op = "killed"
    /\ cli.step = "commit"
    /\ commits = cli.before

----------------------------------------------------------------------------
(* Properties of the inode table and the slot cache, checked under SpecMount *)

\* the InodeEntry kind that stands for a tree entry of the given mode
KindOfMode(filemode) ==
    IF filemode = FileModeTree THEN "Tree"
    ELSE IF filemode = FileModeLink THEN "Link"
    ELSE "File"

\* the entry at index i of the tree of directory inode dir
EntryAt(dir, i) == inodes[dir].oid.entries[tree_iter(inodes[dir].oid)[i + 1]]

\* C28: the inode a lookup(parent, name) returns has the kind and the object
\* id of the entry of that name in the parent's tree and, when a directory,
\* the parent recorded is the inode it was looked up in; a directory is never
\* returned as its own child; every key of the slot cache starts with a
\* directory inode and every cached value is in the inode table.
C28_LookupReturnsTheEntry ==
    /\ (reply.op = "lookup" /\ reply.st = "ok") =>
           /\ inodes[reply.attr.ino].kind = KindOfMode(EntryAt(reply.ino, reply.index).filemode)
           /\ inodes[reply.attr.ino].oid = EntryAt(reply.ino, reply.index).id
           /\ inodes[reply.attr.ino].kind = "Tree"
                  => inodes[reply.attr.ino].parent = reply.ino
           /\ reply.attr.ino # reply.ino
    /\ \A key \in DOMAIN family_tree :
           /\ key[1] \in DOMAIN inodes
           /\ inodes[key[1]].kind = "Tree"
           /\ family_tree[key] \in DOMAIN inodes

----------------------------------------------------------------------------
(* The mount's callbacks on any request (database/fs.rs): inode numbers the *)
(* table does not hold, inodes of another kind, names that are no           *)
(* component, handles that are not open                                     *)

\* a byte sequence that is not UTF-8
NonUtf8 == "xFF"

\* the names lookup is asked for: components that are or are not there, "..",
\* and a name that is not UTF-8
RequestNames == {CompA, CompB, <<"x">>, <<".", ".">>, <<NonUtf8>>}

PanicReply(op, ino) == Reply(op, ino, "panic", NoAttr, 0, <<>>)

\* Filesystem::lookup from its first line: self.inodes.get_mut(&parent)
\* .unwrap(), and name.to_str().unwrap().parse::<ShadowPathComponent>()
\* .unwrap() once the parent is seen to be a tree
lookup_request(m, parent, name) ==
    IF parent \notin DOMAIN m.inodes
    THEN [m |-> m, reply |-> PanicReply("lookup", parent)]
    ELSE IF m.inodes[parent].kind # "Tree"
    THEN [m |-> m, reply |-> Reply("lookup", parent, "EINVAL", NoAttr, 0, <<>>)]
    ELSE IF (\E i \in 1..Len(name) : name[i] = NonUtf8) \/ ~ValidComponent(name)
    THEN [m |-> m, reply |-> PanicReply("lookup", parent)]
    ELSE lookup(m, parent, name)

\* Filesystem::readdir from its first line: self.inodes.get(&ino).unwrap()
readdir_request(m, ino, offset, capacity) ==
    IF ino \notin DOMAIN m.inodes
    THEN [m |-> m, reply |-> PanicReply("readdir", ino)]
    ELSE readdir(m, ino, offset, capacity)

\* Filesystem::getattr: fetch_attr starts with self.inodes.get(&ino).unwrap()
getattr_request(m, ino) ==
    IF ino \notin DOMAIN m.inodes THEN PanicReply("getattr", ino)
    ELSE IF ~fetch_attr(m, ino).ok THEN Reply("getattr", ino, "EINVAL", NoAttr, 0, <<>>)
    ELSE Reply("getattr", ino, "ok", fetch_attr(m, ino).attr, 0, <<>>)

\* Filesystem::readlink: the target is the content of the link's blob
readlink_request(m, ino) ==
    IF ino \notin DOMAIN m.inodes THEN PanicReply("readlink", ino)
    ELSE IF m.inodes[ino].kind # "Link"
    THEN Reply("readlink", ino, "EINVAL", NoAttr, 0, <<>>)
    ELSE IF m.inodes[ino].oid.kind # "blob"       \* find_blob(..).unwrap()
    THEN PanicReply("readlink", ino)
    ELSE [Reply("readlink", ino, "ok", NoAttr, 0, <<>>)
             EXCEPT !.file = m.inodes[ino].oid.data]

\* Filesystem::open: open_blob looks at the handles first, then at
\* self.inodes.get(&ino).unwrap()
open_request(handles, m, ino, n) ==
    IF ino \notin DOMAIN handles /\ ino \notin DOMAIN m.inodes
    THEN [st |-> "panic", handles |-> handles]
    ELSE [st |-> IF open_blob(handles, m, ino, n).ok THEN "ok" ELSE "EINVAL",
          handles |-> open_blob(handles, m, ino, n).handles]

\* libc::pread(fd, buf, size, offset): the bytes of the file from offset, at
\* most size of them
pread(content, size, offset) ==
    SubSeq(content, offset + 1,
           IF offset + size < Len(content) THEN offset + size ELSE Len(content))

\* Filesystem::read: self.file_handles.get_mut(&ino).unwrap().file
read_request(handles, ino, offset, size) ==
    IF ino \notin DOMAIN handles THEN PanicReply("read", ino)
    ELSE [Reply("read", ino, "ok", NoAttr, 0, <<>>)
             EXCEPT !.file = pread(files[handles[ino].file[1]], size, offset)]

\* inode numbers handed out, and opens that succeed, before the requests stop
RequestInodes == MaxInodes - 1
RequestOpens == MaxOpens - 1

LookupRequest(parent, name) ==
    /\ Up
    /\ next_inode <= RequestInodes
    /\ \E r \in {lookup_request(TheTables, parent, name)} :
           /\ inodes' = r.m.inodes
           /\ family_tree' = r.m.family_tree
           /\ next_inode' = r.m.next_inode
           /\ origin' = r.m.origin
           /\ reply' = r.reply
    /\ UNCHANGED <<file_handles, opens, releases, listing, treeVars, storeVars, plantVars, walkVars, snapVars, diffVars, codecVars, cliVars>>

ReaddirRequest(ino, offset, capacity) ==
    /\ Up
    /\ next_inode <= RequestInodes
    /\ \E r \in {readdir_request(TheTables, ino, offset, capacity)} :
           /\ inodes' = r.m.inodes
           /\ family_tree' = r.m.family_tree
           /\ next_inode' = r.m.next_inode
           /\ origin' = r.m.origin
           /\ reply' = r.reply
    /\ UNCHANGED <<file_handles, opens, releases, listing, treeVars, storeVars, plantVars, walkVars, snapVars, diffVars, codecVars, cliVars>>

GetattrRequest(ino) ==
    /\ Up
    /\ reply' = getattr_request(TheTables, ino)
    /\ UNCHANGED <<inodes, family_tree, next_inode, file_handles, origin, opens, releases, listing, treeVars, storeVars, plantVars, walkVars, snapVars, diffVars, codecVars, cliVars>>

ReadlinkRequest(ino) ==
    /\ Up
    /\ reply' = readlink_request(TheTables, ino)
    /\ UNCHANGED <<inodes, family_tree, next_inode, file_handles, origin, opens, releases, listing, treeVars, storeVars, plantVars, walkVars, snapVars, diffVars, codecVars, cliVars>>

OpenRequest(ino) ==
    /\ Up
    /\ Total(opens) < RequestOpens
    /\ \E r \in {open_request(file_handles, TheTables, ino, Count(opens, ino) + 1)} :
           /\ file_handles' = r.handles
           /\ opens' = IF r.st = "ok" THEN Put(opens, ino, Count(opens, ino) + 1) ELSE opens
           /\ reply' = Reply("open", ino, r.st, NoAttr, 0, <<>>)
    /\ UNCHANGED <<inodes, family_tree, next_inode, origin, releases, listing, treeVars, storeVars, plantVars, walkVars, snapVars, diffVars, codecVars, cliVars>>

ReleaseRequest(ino) ==
    /\ Up
    /\ \E r \in {close_blob(file_handles, ino)} :
           /\ file_handles' = r.handles
           /\ releases' = IF r.st = "ok" THEN Put(releases, ino, Count(releases, ino) + 1)
                          ELSE releases
           /\ reply' = Reply("release", ino, r.st, NoAttr, 0, <<>>)
    /\ UNCHANGED <<inodes, family_tree, next_inode, origin, opens, listing, treeVars, storeVars, plantVars, walkVars, snapVars, diffVars, codecVars, cliVars>>

ReadRequest(ino, offset, size) ==
    /\ Up
    /\ reply' = read_request(file_handles, ino, offset, size)
    /\ UNCHANGED <<inodes, family_tree, next_inode, file_handles, origin, opens, releases, listing, treeVars, storeVars, plantVars, walkVars, snapVars, diffVars, codecVars, cliVars>>

\* the seven callbacks, on whatever a request carries
RequestsNext ==
    \/ \E parent \in InodeNumbers, name \in RequestNames : LookupRequest(parent, name)
    \/ \E ino \in InodeNumbers, offset \in {0, 2} : ReaddirRequest(ino, offset, MaxCapacity)
    \/ \E ino \in InodeNumbers : GetattrRequest(ino)
    \/ \E ino \in InodeNumbers : ReadlinkRequest(ino)
    \/ \E ino \in InodeNumbers : OpenRequest(ino)
    \/ \E ino \in InodeNumbers : ReleaseRequest(ino)
    \/ \E ino \in InodeNumbers, offset \in {0, 1} : ReadRequest(ino, offset, 1)

----------------------------------------------------------------------------
(* Properties of the callbacks on any request, checked under SpecRequests *)

\* C24: a callback that cannot be served replies ENOENT or EINVAL, leaves the
\* inode table and the handle table as they were, and does not abort the
\* process.
C24_UnservedCallbackRepliesError ==
    [][reply'.st # "ok" =>
           /\ reply'.st \in {"ENOENT", "EINVAL"}
           /\ inodes' = inodes
           /\ next_inode' = next_inode
           /\ file_handles' = file_handles]_vars

----------------------------------------------------------------------------
(* Specifications *)

\* append and remove commands on a planted tree
InitTree ==
    /\ big_tree \in {EmptyBulkTree, SeedTree}
    /\ last = NoCall
    /\ nops = 0
    /\ files = <<>>
    /\ dirs = {}
    /\ store = [c \in Callers |-> Idle]
    /\ nstores = 0
    /\ snapshot = <<>>
    /\ planted = NotPlanted
    /\ root = NoRoot
    /\ walk = NoWalk
    /\ subject = <<>>
    /\ stored = NotStored
    /\ tree_a = NoRoot
    /\ tree_b = NoRoot
    /\ diffs = NoDiff
    /\ codec_arg = NoArg
    /\ codec_out = NoOut
    /\ inodes = <<>>
    /\ family_tree = <<>>
    /\ next_inode = 0
    /\ file_handles = <<>>
    /\ reply = NoReply
    /\ origin = <<>>
    /\ opens = <<>>
    /\ releases = <<>>
    /\ listing = NoListing
    /\ commits = <<>>
    /\ cli = NoCommand

SpecTree == InitTree /\ [][TreeNext]_vars

\* an empty blob store
InitStore ==
    /\ big_tree = EmptyBulkTree
    /\ last = NoCall
    /\ nops = 0
    /\ files = <<>>
    /\ dirs = {}
    /\ store = [c \in Callers |-> Idle]
    /\ nstores = 0
    /\ snapshot = <<>>
    /\ planted = NotPlanted
    /\ root = NoRoot
    /\ walk = NoWalk
    /\ subject = <<>>
    /\ stored = NotStored
    /\ tree_a = NoRoot
    /\ tree_b = NoRoot
    /\ diffs = NoDiff
    /\ codec_arg = NoArg
    /\ codec_out = NoOut
    /\ inodes = <<>>
    /\ family_tree = <<>>
    /\ next_inode = 0
    /\ file_handles = <<>>
    /\ reply = NoReply
    /\ origin = <<>>
    /\ opens = <<>>
    /\ releases = <<>>
    /\ listing = NoListing
    /\ commits = <<>>
    /\ cli = NoCommand

SpecStore == InitStore /\ [][StoreNext]_vars

SpecStoreSeq == InitStore /\ [][StoreSeqNext]_vars

\* a snapshot to plant
InitPlant ==
    /\ big_tree = EmptyBulkTree
    /\ last = NoCall
    /\ nops = 0
    /\ files = <<>>
    /\ dirs = {}
    /\ store = [c \in Callers |-> Idle]
    /\ nstores = 0
    /\ snapshot \in Snapshots
    /\ planted = NotPlanted
    /\ root = NoRoot
    /\ walk = NoWalk
    /\ subject = <<>>
    /\ stored = NotStored
    /\ tree_a = NoRoot
    /\ tree_b = NoRoot
    /\ diffs = NoDiff
    /\ codec_arg = NoArg
    /\ codec_out = NoOut
    /\ inodes = <<>>
    /\ family_tree = <<>>
    /\ next_inode = 0
    /\ file_handles = <<>>
    /\ reply = NoReply
    /\ origin = <<>>
    /\ opens = <<>>
    /\ releases = <<>>
    /\ listing = NoListing
    /\ commits = <<>>
    /\ cli = NoCommand

SpecPlant == InitPlant /\ [][PlantNext]_vars

\* a tree of the repository to walk
InitWalk ==
    /\ big_tree = EmptyBulkTree
    /\ last = NoCall
    /\ nops = 0
    /\ files = <<>>
    /\ dirs = {}
    /\ store = [c \in Callers |-> Idle]
    /\ nstores = 0
    /\ snapshot = <<>>
    /\ planted = NotPlanted
    /\ root \in WalkTrees
    /\ walk = NoWalk
    /\ subject = <<>>
    /\ stored = NotStored
    /\ tree_a = NoRoot
    /\ tree_b = NoRoot
    /\ diffs = NoDiff
    /\ codec_arg = NoArg
    /\ codec_out = NoOut
    /\ inodes = <<>>
    /\ family_tree = <<>>
    /\ next_inode = 0
    /\ file_handles = <<>>
    /\ reply = NoReply
    /\ origin = <<>>
    /\ opens = <<>>
    /\ releases = <<>>
    /\ listing = NoListing
    /\ commits = <<>>
    /\ cli = NoCommand

SpecWalk == InitWalk /\ [][WalkNext]_vars

\* a planted tree, the subject it was taken from, and a blob store
InitSnap ==
    /\ big_tree = EmptyBulkTree
    /\ last = NoCall
    /\ nops = 0
    /\ files \in {<<>>, StagedShort}
    /\ dirs = IF files = <<>> THEN {} ELSE {partial_parent(Sha256(SrcShort))}
    /\ store = [c \in Callers |-> Idle]
    /\ nstores = 0
    /\ snapshot = <<>>
    /\ planted = NotPlanted
    /\ root \in SnapTrees
    /\ walk = NoWalk
    /\ subject \in Subjects
    /\ stored = NotStored
    /\ tree_a = NoRoot
    /\ tree_b = NoRoot
    /\ diffs = NoDiff
    /\ codec_arg = NoArg
    /\ codec_out = NoOut
    /\ inodes = <<>>
    /\ family_tree = <<>>
    /\ next_inode = 0
    /\ file_handles = <<>>
    /\ reply = NoReply
    /\ origin = <<>>
    /\ opens = <<>>
    /\ releases = <<>>
    /\ listing = NoListing
    /\ commits = <<>>
    /\ cli = NoCommand

SpecSnap == InitSnap /\ [][SnapNext]_vars

\* two trees of the repository to compare
InitDiff ==
    /\ big_tree = EmptyBulkTree
    /\ last = NoCall
    /\ nops = 0
    /\ files = <<>>
    /\ dirs = {}
    /\ store = [c \in Callers |-> Idle]
    /\ nstores = 0
    /\ snapshot = <<>>
    /\ planted = NotPlanted
    /\ root = NoRoot
    /\ walk = NoWalk
    /\ subject = <<>>
    /\ stored = NotStored
    /\ tree_a \in DiffTrees
    /\ tree_b \in DiffTrees
    /\ diffs = NoDiff
    /\ codec_arg = NoArg
    /\ codec_out = NoOut
    /\ inodes = <<>>
    /\ family_tree = <<>>
    /\ next_inode = 0
    /\ file_handles = <<>>
    /\ reply = NoReply
    /\ origin = <<>>
    /\ opens = <<>>
    /\ releases = <<>>
    /\ listing = NoListing
    /\ commits = <<>>
    /\ cli = NoCommand

SpecDiff == InitDiff /\ [][DiffNext]_vars

\* an entry name to decode, or a shadow to write and read back
InitCodec ==
    /\ big_tree = EmptyBulkTree
    /\ last = NoCall
    /\ nops = 0
    /\ files = <<>>
    /\ dirs = {}
    /\ store = [c \in Callers |-> Idle]
    /\ nstores = 0
    /\ snapshot = <<>>
    /\ planted = NotPlanted
    /\ root = NoRoot
    /\ walk = NoWalk
    /\ subject = <<>>
    /\ stored = NotStored
    /\ tree_a = NoRoot
    /\ tree_b = NoRoot
    /\ diffs = NoDiff
    /\ codec_arg \in {[op |-> "decode", name |-> s] : s \in EntryNameInputs}
                         \cup {[op |-> "from_bytes", shadow |-> s] : s \in ShadowInputs}
                         \cup {[op |-> "parse", text |-> s] : s \in ShadowTexts}
                         \cup {[op |-> "node", ty |-> t, mode |-> s] :
                                   t \in NodeTypes, s \in ModeTexts}
    /\ codec_out = NoOut
    /\ inodes = <<>>
    /\ family_tree = <<>>
    /\ next_inode = 0
    /\ file_handles = <<>>
    /\ reply = NoReply
    /\ origin = <<>>
    /\ opens = <<>>
    /\ releases = <<>>
    /\ listing = NoListing
    /\ commits = <<>>
    /\ cli = NoCommand

SpecCodec == InitCodec /\ [][CodecNext]_vars

\* a tree mounted over a blob store
InitMount ==
    /\ big_tree = EmptyBulkTree
    /\ last = NoCall
    /\ nops = 0
    /\ files = MountedBlobs
    /\ dirs = {blob_parent(ShadowX.content_hash)}
    /\ store = [c \in Callers |-> Idle]
    /\ nstores = 0
    /\ snapshot = <<>>
    /\ planted = NotPlanted
    /\ root \in MountTrees
    /\ walk = NoWalk
    /\ subject = <<>>
    /\ stored = NotStored
    /\ tree_a = NoRoot
    /\ tree_b = NoRoot
    /\ diffs = NoDiff
    /\ codec_arg = NoArg
    /\ codec_out = NoOut
    /\ inodes = new(root).inodes
    /\ family_tree = new(root).family_tree
    /\ next_inode = new(root).next_inode
    /\ file_handles = <<>>
    /\ reply = NoReply
    /\ origin = <<>>
    /\ opens = <<>>
    /\ releases = <<>>
    /\ listing = NoListing
    /\ commits = <<>>
    /\ cli = NoCommand

SpecMount == InitMount /\ [][MountNext]_vars

SpecHandles == InitMount /\ [][HandlesNext]_vars

SpecAttr == InitMount /\ [][AttrNext]_vars

\* `bkp snapshot` run on a repository whose first commit has the empty tree
InitCli ==
    /\ big_tree = EmptyBulkTree
    /\ last = NoCall
    /\ nops = 0
    /\ files = <<>>
    /\ dirs = {}
    /\ store = [c \in Callers |-> Idle]
    /\ nstores = 0
    /\ snapshot = <<>>
    /\ planted = NotPlanted
    /\ root = NoRoot
    /\ walk = NoWalk
    /\ subject = <<>>
    /\ stored = NotStored
    /\ tree_a = NoRoot
    /\ tree_b = NoRoot
    /\ diffs = NoDiff
    /\ codec_arg = NoArg
    /\ codec_out = NoOut
    /\ inodes = <<>>
    /\ family_tree = <<>>
    /\ next_inode = 0
    /\ file_handles = <<>>
    /\ reply = NoReply
    /\ origin = <<>>
    /\ opens = <<>>
    /\ releases = <<>>
    /\ listing = NoListing
    /\ commits = <<commit_simple(EmptyBulkTree, 0)>>
    /\ cli = NoCommand

SpecCli == InitCli /\ [][CliNext]_vars

SpecRequests == InitMount /\ [][RequestsNext]_vars

\* append and remove on trees that pass the check walk
InitEdit ==
    /\ big_tree \in EditTrees
    /\ last = NoCall
    /\ nops = 0
    /\ files = <<>>
    /\ dirs = {}
    /\ store = [c \in Callers |-> Idle]
    /\ nstores = 0
    /\ snapshot = <<>>
    /\ planted = NotPlanted
    /\ root = NoRoot
    /\ walk = NoWalk
    /\ subject = <<>>
    /\ stored = NotStored
    /\ tree_a = NoRoot
    /\ tree_b = NoRoot
    /\ diffs = NoDiff
    /\ codec_arg = NoArg
    /\ codec_out = NoOut
    /\ inodes = <<>>
    /\ family_tree = <<>>
    /\ next_inode = 0
    /\ file_handles = <<>>
    /\ reply = NoReply
    /\ origin = <<>>
    /\ opens = <<>>
    /\ releases = <<>>
    /\ listing = NoListing
    /\ commits = <<>>
    /\ cli = NoCommand

SpecEdit == InitEdit /\ [][TreeNext]_vars

====
